---- MODULE Spec2Model ----
(***************************************************************************)
(* email-catch: one SMTP session (internal/smtp/server.go) driving the     *)
(* email processor (pkg/email: ParseEmail, route matching, dispatch).      *)
(*                                                                         *)
(* Strings are sequences of one-character strings, so that prefix tests,   *)
(* slicing, trimming and regular-expression search are computed and not    *)
(* assumed.                                                                *)
(***************************************************************************)
EXTENDS Integers, Sequences, FiniteSets, TLC

VARIABLES
    config,      \* Server.config: [tls : BOOLEAN, routes : Seq(RouteConfig)], read-only
    open,        \* TRUE while handleConnection's command loop runs
    helo,        \* Session.helo
    mailFrom,    \* Session.mailFrom
    rcptTo,      \* Session.rcptTo
    tlsEnabled,  \* Session.tlsEnabled
    conn,        \* Session.conn: [port, tls, started, out], see AcceptOn
    lastCmd,     \* the command line handled last: [verb, args, msg, io]
    replies,     \* reply codes written while handling lastCmd, in order
    parsed,      \* ParseEmail's result inside the last command: [err, email] or NoEmail
    fired,       \* names of the routes handed to executeRoute by the last command, in order
    attempted,   \* actions run by the last command: <<[route, idx, type, ok]>>, in order
    script,      \* k >= 0: the commands received on this connection are exactly the first k
                 \*   of HELO, MAIL FROM, RCPT TO, DATA, QUIT; -1: any other sequence
    transcript,  \* every reply code sent on this connection after the greeting, while script >= 0
    submitted,   \* the message bytes the client submitted in DATA, before dot-stuffing
    wire,        \* the bytes of the connection the session has not read yet
    data,        \* handleData's data: the message bytes collected so far
    dataPc,      \* where the session is in handleData: "idle", "reading", "done", "eof"
    server,      \* Server: [listeners : Seq([port, open]), wg, shutdown]
    pc,          \* where Start, Stop and the accept loops are, and Stop's done channel
    conns,       \* the client connections: [state, port, late, early, atStop]
    timer,       \* TRUE once time.After(30s) of Stop has fired
    stored,      \* the messages handed to the sinks and what was written: [msgs, log]
    hook,        \* a call of Client.SendWebhookWithRetry: its loop, its attempts, its result
    other        \* the session of a second connection while its goroutine is blocked in a read

vars == <<config, open, helo, mailFrom, rcptTo, tlsEnabled, conn, lastCmd, replies,
          parsed, fired, attempted, script, transcript,
          submitted, wire, data, dataPc, server, pc, conns, timer, stored, hook, other>>

\* what one session's command handling has no access to: the bytes of the DATA phase
\* (modelled apart), the Server's listener bookkeeping, other sessions
outside == <<submitted, wire, data, server, pc, conns, timer, stored, hook, other>>

----------------------------------------------------------------------------
(* Strings *)

EmptyStr == <<>>

Space == " "

\* strings.ToUpper on the letters used by the command arguments
UpperChar(c) ==
    CASE c = "f" -> "F" [] c = "r" -> "R" [] c = "o" -> "O" [] c = "m" -> "M"
      [] c = "t" -> "T" [] OTHER -> c

ToUpper(s) == [i \in 1..Len(s) |-> UpperChar(s[i])]

\* strings.HasPrefix
HasPrefix(s, p) == Len(s) >= Len(p) /\ SubSeq(s, 1, Len(p)) = p

\* strings.HasSuffix
HasSuffix(s, p) == Len(s) >= Len(p) /\ SubSeq(s, Len(s) - Len(p) + 1, Len(s)) = p

RECURSIVE TrimLeft(_)
TrimLeft(s) == IF s # <<>> /\ Head(s) = Space THEN TrimLeft(Tail(s)) ELSE s

RECURSIVE TrimRight(_)
TrimRight(s) ==
    IF s # <<>> /\ s[Len(s)] = Space THEN TrimRight(SubSeq(s, 1, Len(s) - 1)) ELSE s

\* strings.TrimSpace
TrimSpace(s) == TrimRight(TrimLeft(s))

\* args[n:]
From(s, n) == SubSeq(s, n + 1, Len(s))

\* the address extraction shared by handleMail and handleRcpt:
\* TrimSpace(args[n:]), then one pair of enclosing angle brackets removed
StripAngle(s) ==
    IF HasPrefix(s, <<"<">>) /\ HasSuffix(s, <<">">>)
    THEN SubSeq(s, 2, Len(s) - 1)
    ELSE s

----------------------------------------------------------------------------
(* Regular expressions: the subset  c  .  c*  .*  ^  $  of Go's regexp      *)
(* syntax; an unclosed "[" or "(", a stray ")", a leading "*" and "**" do   *)
(* not compile.                                                             *)

\* regexp.Compile(p) returns err == nil
Compiles(p) ==
    /\ \A i \in 1..Len(p) : p[i] \notin {"[", "(", ")"}
    /\ \A i \in 1..Len(p) : p[i] = "*" => (i > 1 /\ p[i-1] # "*")

RECURSIVE MatchHere(_, _, _, _)
RECURSIVE MatchStar(_, _, _, _, _)

\* does p[i..] match a prefix of s[j..]
MatchHere(p, i, s, j) ==
    IF i > Len(p) THEN TRUE
    ELSE IF i < Len(p) /\ p[i+1] = "*" THEN MatchStar(p[i], p, i + 2, s, j)
    ELSE IF p[i] = "$" THEN j > Len(s) /\ MatchHere(p, i + 1, s, j)
    ELSE IF p[i] = "^" THEN j = 1 /\ MatchHere(p, i + 1, s, j)
    ELSE IF j <= Len(s) /\ (p[i] = "." \/ p[i] = s[j]) THEN MatchHere(p, i + 1, s, j + 1)
    ELSE FALSE

\* c* followed by p[i..], against s[j..]
MatchStar(c, p, i, s, j) ==
    \/ MatchHere(p, i, s, j)
    \/ /\ j <= Len(s)
       /\ (c = "." \/ c = s[j])
       /\ MatchStar(c, p, i, s, j + 1)

\* (*Regexp).MatchString: unanchored search
MatchString(p, s) == \E j \in 1..(Len(s) + 1) : MatchHere(p, 1, s, j)

----------------------------------------------------------------------------
(* Addresses, domains, patterns *)

Dom    == <<"d">>
AddrS  == <<"s", "@", "x">>          \* envelope sender
AddrC  == <<"c", "@", "t">>          \* recipient "c@t"
AddrO  == <<"o", "@", "t">>          \* recipient "o@t"
AddrB  == <<"b", "@", "y">>          \* a From header differing from the envelope sender
SubjHi == <<"h", "i">>
SubjAd == <<"a", "d">>

PatCapture == <<"c", "@", ".", "*">>     \* capture@.*
PatAnyT    == <<"@", "t", "$">>
PatSender  == <<"^", "s", "@">>
PatHi      == <<"h", "i">>
PatAll     == <<".", "*">>
PatBad     == <<"[">>                    \* does not compile

----------------------------------------------------------------------------
(* Transfer decoding and RFC 2047 header decoding (pkg/email) *)

CR == "\r"
LF == "\n"

\* strings.ToLower on the letters used by the encoding names
LowerChar(c) ==
    CASE c = "B" -> "b" [] c = "A" -> "a" [] c = "S" -> "s" [] c = "E" -> "e"
      [] c = "U" -> "u" [] c = "T" -> "t" [] c = "F" -> "f" [] c = "Q" -> "q"
      [] OTHER -> c

ToLower(s) == [i \in 1..Len(s) |-> LowerChar(s[i])]

\* strings.Index(s[from:], t) as a position in s; 0 when t does not occur at or after from
IndexFrom(s, t, from) ==
    LET hits == { i \in from..(Len(s) - Len(t) + 1) : SubSeq(s, i, i + Len(t) - 1) = t }
    IN  IF hits = {} THEN 0 ELSE CHOOSE i \in hits : \A j \in hits : i <= j

\* the value of a character of the base64 alphabet (the characters used by the inputs),
\* -1 for a character outside the alphabet
B64Val(c) ==
    CASE c = "A" -> 0  [] c = "B" -> 1  [] c = "D" -> 3  [] c = "G" -> 6  [] c = "I" -> 8
      [] c = "J" -> 9  [] c = "Q" -> 16 [] c = "U" -> 20 [] c = "V" -> 21
      [] c = "d" -> 29 [] c = "z" -> 51
      [] OTHER -> -1

\* the character of an octet (the octets the inputs decode to)
Chr(n) ==
    CASE n = 65 -> "A" [] n = 66 -> "B" [] n = 67 -> "C" [] n = 84 -> "T"
      [] n = 101 -> "e" [] n = 115 -> "s" [] n = 116 -> "t" [] n = 32 -> " "
      [] OTHER -> "?"

HexVal(c) ==
    CASE c = "0" -> 0 [] c = "1" -> 1 [] c = "2" -> 2 [] c = "3" -> 3 [] c = "4" -> 4
      [] c = "5" -> 5 [] c = "6" -> 6 [] c = "7" -> 7 [] c = "8" -> 8 [] c = "9" -> 9
      [] c = "A" -> 10 [] c = "B" -> 11 [] c = "C" -> 12 [] c = "D" -> 13
      [] c = "E" -> 14 [] c = "F" -> 15
      [] OTHER -> -1

Decoded(out) == [err |-> FALSE, out |-> out]

DecodeError == [err |-> TRUE, out |-> <<>>]

\* a decoding result with prefix put in front, an error staying an error
Prepend(prefix, r) == IF r.err THEN DecodeError ELSE Decoded(prefix \o r.out)

\* the octets of one group of four base64 characters with values v1..v4
B64Octets(q, v1, v2, v3, v4, last) ==
    IF v1 < 0 \/ v2 < 0 THEN DecodeError
    ELSE IF q[3] = "=" /\ q[4] = "="
         THEN IF last THEN Decoded(<<Chr((v1 * 4) + (v2 \div 16))>>) ELSE DecodeError
    ELSE IF v3 < 0 THEN DecodeError
    ELSE IF q[4] = "="
         THEN IF last
              THEN Decoded(<<Chr((v1 * 4) + (v2 \div 16)), Chr(((v2 % 16) * 16) + (v3 \div 4))>>)
              ELSE DecodeError
    ELSE IF v4 < 0 THEN DecodeError
    ELSE Decoded(<<Chr((v1 * 4) + (v2 \div 16)), Chr(((v2 % 16) * 16) + (v3 \div 4)),
                   Chr(((v3 % 4) * 64) + v4)>>)

\* one group of four base64 characters; padding is legal in the last group only
B64Quad(q, last) == B64Octets(q, B64Val(q[1]), B64Val(q[2]), B64Val(q[3]), B64Val(q[4]), last)

\* a group's octets in front of the octets of the groups after it
B64Join(g, rest) == IF g.err THEN DecodeError ELSE Prepend(g.out, rest)

RECURSIVE B64Groups(_)
B64Groups(s) ==
    IF s = <<>> THEN Decoded(<<>>)
    ELSE IF Len(s) < 4 THEN DecodeError
    ELSE B64Join(B64Quad(SubSeq(s, 1, 4), Len(s) = 4), B64Groups(SubSeq(s, 5, Len(s))))

\* base64.StdEncoding.Decode / DecodeString: CR and LF are skipped, anything else
\* outside the alphabet and a wrong length are errors
B64Decode(s) == B64Groups(SelectSeq(s, LAMBDA c : c \notin {CR, LF}))

RECURSIVE QDecode(_)
\* mime.qDecode (the Q encoding of encoded words): "_" is a space, "=XX" an octet
QDecode(s) ==
    IF s = <<>> THEN Decoded(<<>>)
    ELSE IF s[1] = "_" THEN Prepend(<<" ">>, QDecode(Tail(s)))
    ELSE IF s[1] = "="
         THEN IF Len(s) < 3 \/ HexVal(s[2]) < 0 \/ HexVal(s[3]) < 0 THEN DecodeError
              ELSE Prepend(<<Chr(HexVal(s[2]) * 16 + HexVal(s[3]))>>, QDecode(SubSeq(s, 4, Len(s))))
    ELSE Prepend(<<s[1]>>, QDecode(Tail(s)))

\* decodeContent
DecodeContent(content, encoding) ==
    LET enc == ToLower(TrimSpace(encoding)) IN
    IF enc = <<"b","a","s","e","6","4">> THEN B64Decode(content)
    ELSE IF enc = <<"q","u","o","t","e","d","-","p","r","i","n","t","a","b","l","e">>
         THEN Decoded(content)
    ELSE Decoded(content)

\* the charsets WordDecoder.convert handles without a CharsetReader
KnownCharset(cs) ==
    ToLower(cs) \in { <<"u","t","f","-","8">>,
                      <<"i","s","o","-","8","8","5","9","-","1">>,
                      <<"u","s","-","a","s","c","i","i">> }

\* WordDecoder.decode: the encoding letter selects base64 or Q
DecodeWord(encoding, text) ==
    IF encoding \in {"B", "b"} THEN B64Decode(text)
    ELSE IF encoding \in {"Q", "q"} THEN QDecode(text)
    ELSE DecodeError

RECURSIVE DecodeHeader(_, _)

\* what is written before a decoded word: the text in front of it, unless that is only
\* white space between two encoded words
TextBefore(header, betweenWords, start) ==
    IF start > 1 /\ (~betweenWords \/ \E i \in 1..(start - 1) : header[i] # Space)
    THEN SubSeq(header, 1, start - 1) ELSE <<>>

\* the encoded word at start..close+1 with its charset and its decoded content
DecodeHeaderWord(header, betweenWords, start, close, charset, content) ==
    IF content.err
    THEN Prepend(SubSeq(header, 1, start + 1),
                 DecodeHeader(SubSeq(header, start + 2, Len(header)), FALSE))
    ELSE IF ~KnownCharset(charset) THEN DecodeError
    ELSE Prepend(TextBefore(header, betweenWords, start) \o content.out,
                 DecodeHeader(SubSeq(header, close + 2, Len(header)), TRUE))

\* "=?" at start, the "?" after the charset at mark, "?=" at close (0: not there)
DecodeHeaderText(header, betweenWords, start, mark, close) ==
    IF close = 0 THEN Decoded(header)
    ELSE DecodeHeaderWord(header, betweenWords, start, close,
                          SubSeq(header, start + 2, mark - 1),
                          DecodeWord(header[mark + 1], SubSeq(header, mark + 3, close - 1)))

\* "=?" at start, the "?" after the charset at mark (0: not there)
DecodeHeaderCharset(header, betweenWords, start, mark) ==
    IF mark = 0 THEN Decoded(header)
    ELSE IF Len(header) < mark + 4 THEN Decoded(header)
    ELSE IF header[mark + 2] # "?" THEN Decoded(header)
    ELSE DecodeHeaderText(header, betweenWords, start, mark,
                          IndexFrom(header, <<"?", "=">>, mark + 3))

\* "=?" at start (0: not there)
DecodeHeaderFrom(header, betweenWords, start) ==
    IF start = 0 THEN Decoded(header)
    ELSE DecodeHeaderCharset(header, betweenWords, start, IndexFrom(header, <<"?">>, start + 2))

\* WordDecoder.DecodeHeader on what is left of the header: a word that is not well formed
\* or does not decode stays as it is, an unknown charset is an error
DecodeHeader(header, betweenWords) ==
    DecodeHeaderFrom(header, betweenWords, IndexFrom(header, <<"=", "?">>, 1))

\* the header as it is when decoding ended in an error
HeaderOr(header, r) == IF r.err THEN header ELSE r.out

\* decodeMIMEHeader: the decoded header, or the header as it is when decoding fails
DecodeMIMEHeader(header) ==
    IF header = EmptyStr THEN EmptyStr
    ELSE HeaderOr(header, DecodeHeader(header, FALSE))

----------------------------------------------------------------------------
(* Messages as received in DATA: the parts of the wire form ParseEmail      *)
(* looks at.  Header values and bodies are strings; the header block, the   *)
(* Date and the media types are named by what the Go parsers make of them.  *)

\* a part of a multipart body
Part(ct, disp, filename, cte, partData) ==
    [ctype |-> ct, disp |-> disp, filename |-> filename, name |-> EmptyStr, cte |-> cte,
     data |-> partData, parts |-> <<>>, closed |-> TRUE]

\* a part whose Content-Type carries a name parameter and that has no Content-Disposition
NamedPart(ct, name, cte, partData) ==
    [Part(ct, "", EmptyStr, cte, partData) EXCEPT !.name = name]

\* a part that is a multipart body itself, with its own boundary
NestedPart(parts, closed) ==
    [Part("multipart/mixed", "", EmptyStr, EmptyStr, EmptyStr)
        EXCEPT !.parts = parts, !.closed = closed]

\* a message without a multipart body
Msg(hdr, fromHdr, toHdr, subject, date, ct, cte, body) ==
    [hdr |-> hdr, fromHdr |-> fromHdr, toHdr |-> toHdr, subject |-> subject, date |-> date,
     ctype |-> ct, cte |-> cte, body |-> body, parts |-> <<>>, closed |-> TRUE]

\* a message with a multipart body; closed: the closing boundary line is there
MultipartMsg(hdr, fromHdr, toHdr, subject, date, ct, parts, closed) ==
    [hdr |-> hdr, fromHdr |-> fromHdr, toHdr |-> toHdr, subject |-> subject, date |-> date,
     ctype |-> ct, cte |-> EmptyStr, body |-> EmptyStr, parts |-> parts, closed |-> closed]

BodyText == <<"t", "e", "x", "t">>

MsgPlain      == Msg("ok", EmptyStr, EmptyStr, SubjHi, "absent", "absent", EmptyStr, BodyText)
MsgFrom       == Msg("ok", AddrB, EmptyStr, SubjAd, "ok", "text/html", EmptyStr, BodyText)
MsgBadHeader  == Msg("bad", EmptyStr, EmptyStr, EmptyStr, "absent", "absent", EmptyStr, EmptyStr)
MsgNoBoundary == MultipartMsg("ok", EmptyStr, EmptyStr, SubjHi, "absent", "multipart-noboundary",
                              <<>>, TRUE)
MsgBadCType   == Msg("ok", AddrB, EmptyStr, SubjHi, "absent", "invalid", EmptyStr, BodyText)

Messages == {MsgPlain, MsgFrom, MsgBadHeader, MsgNoBoundary, MsgBadCType}

NoMsg == Msg("none", EmptyStr, EmptyStr, EmptyStr, "absent", "absent", EmptyStr, EmptyStr)

NoEmail == [err |-> FALSE,
            email |-> [from |-> EmptyStr, to |-> <<>>, subject |-> EmptyStr, date |-> "zero",
                       body |-> EmptyStr, htmlBody |-> EmptyStr, attachments |-> <<>>],
            called |-> FALSE]

\* Content-Type values of parts, as the header has them
CTypeForwarded == "text/plain; name=forwarded-message.txt"

\* mime.ParseMediaType: the media type of a Content-Type value
MediaType(contentType) ==
    IF contentType = CTypeForwarded THEN "text/plain" ELSE contentType

\* strings.HasPrefix for the prefixes parseMultipart asks about
MediaPrefixes(mediaType) ==
    CASE mediaType \in {"application/pdf", "application/zip"} -> {"application/"}
      [] mediaType = "application/text" -> {"application/", "application/text"}
      [] mediaType = "image/png" -> {"image/"}
      [] mediaType = "message/rfc822" -> {"message/rfc822"}
      [] mediaType = "multipart/mixed" -> {"multipart/"}
      [] mediaType = "text/html" -> {"text/html"}
      [] mediaType = "text/plain" -> {"text/plain"}
      [] OTHER -> {}

HasMediaPrefix(mediaType, prefix) == prefix \in MediaPrefixes(mediaType)

\* getFileExtension
GetFileExtension(mediaType) ==
    CASE mediaType = "application/pdf" -> <<".", "p", "d", "f">>
      [] mediaType = "application/zip" -> <<".", "z", "i", "p">>
      [] mediaType = "image/png" -> <<".", "p", "n", "g">>
      [] mediaType = "text/plain" -> <<".", "t", "x", "t">>
      [] mediaType = "text/html" -> <<".", "h", "t", "m", "l">>
      [] OTHER -> <<".", "b", "i", "n">>

ForwardedName ==
    <<"f", "o", "r", "w", "a", "r", "d", "e", "d", "_", "e", "m", "a", "i", "l",
      ".", "e", "m", "l">>

\* fmt.Sprintf("%d", n) for the attachment counts of the model
Digits(n) == <<CASE n = 1 -> "1" [] n = 2 -> "2" [] n = 3 -> "3" [] OTHER -> "9">>

\* fmt.Sprintf("attachment_%d%s", n, ext)
GeneratedName(n, ext) ==
    <<"a", "t", "t", "a", "c", "h", "m", "e", "n", "t", "_">> \o Digits(n) \o ext

\* parseMultipart: "standard attachment detection"
StandardAttachment(p) == p.disp = "attachment" \/ (p.disp = "" /\ p.filename # EmptyStr)

\* parseMultipart: application/* (not application/text*) and image/* parts
TypedAttachment(p) ==
    \/ /\ HasMediaPrefix(MediaType(p.ctype), "application/")
       /\ ~HasMediaPrefix(MediaType(p.ctype), "application/text")
    \/ HasMediaPrefix(MediaType(p.ctype), "image/")

\* parseMultipart: message/rfc822, or "forwarded-message" anywhere in the Content-Type
ForwardedAttachment(p) == p.ctype = "message/rfc822" \/ p.ctype = CTypeForwarded

\* parseMultipart: isAttachment after the four checks
IsAttachment(p) == StandardAttachment(p) \/ TypedAttachment(p) \/ ForwardedAttachment(p)

\* the filename the four checks leave, "" when none of them gave one
DetectedName(p) ==
    IF StandardAttachment(p) /\ p.filename # EmptyStr THEN p.filename
    ELSE IF TypedAttachment(p) /\ p.name # EmptyStr THEN p.name
    ELSE IF ForwardedAttachment(p) THEN ForwardedName
    ELSE EmptyStr

\* the body of parseMultipart's loop for one part whose content decoded and that is
\* not a multipart body itself
PlacePart(e, p, decoded) ==
    IF IsAttachment(p)
    THEN [e EXCEPT !.attachments =
              Append(@, [filename |-> IF DetectedName(p) # EmptyStr THEN DetectedName(p)
                                      ELSE GeneratedName(Len(e.attachments) + 1,
                                                         GetFileExtension(MediaType(p.ctype))),
                         ctype |-> p.ctype, content |-> decoded])]
    ELSE IF HasMediaPrefix(MediaType(p.ctype), "text/html") THEN [e EXCEPT !.htmlBody = decoded]
    ELSE IF HasMediaPrefix(MediaType(p.ctype), "text/plain") THEN [e EXCEPT !.body = decoded]
    ELSE e

RECURSIVE ParseMultipart(_, _, _)

\* parseMultipart after a nested multipart body was read: its error ends the parse
ParseRest(r, parts, closed) ==
    IF r.err THEN r ELSE ParseMultipart(r.email, parts, closed)

\* parseMultipart on one part and the parts after it
ParsePart(e, p, decoded, rest, closed) ==
    IF decoded.err THEN [err |-> TRUE, email |-> e]
    ELSE IF ~IsAttachment(p) /\ HasMediaPrefix(MediaType(p.ctype), "multipart/")
         THEN ParseRest(ParseMultipart(e, p.parts, p.closed), rest, closed)
    ELSE ParseMultipart(PlacePart(e, p, decoded.out), rest, closed)

\* Email.parseMultipart: the parts in order; a part whose content does not decode and a
\* body that ends without its closing boundary are errors
ParseMultipart(e, parts, closed) ==
    IF parts = <<>> THEN [err |-> ~closed, email |-> e]
    ELSE ParsePart(e, Head(parts), DecodeContent(Head(parts).data, Head(parts).cte),
                   Tail(parts), closed)

\* ParseEmail: mail.ReadMessage fails on a broken header block, mime.ParseMediaType on an
\* invalid Content-Type, a multipart type needs a boundary, and the body or a part has to
\* decode; From falls back to the envelope sender, To is the envelope recipient list.
ParseEmail(rawData, from, to) ==
    LET failure == [NoEmail EXCEPT !.err = TRUE, !.called = TRUE]
        email   == [from        |-> IF rawData.fromHdr # EmptyStr
                                    THEN DecodeMIMEHeader(rawData.fromHdr) ELSE from,
                    to          |-> to,
                    subject     |-> DecodeMIMEHeader(rawData.subject),
                    date        |-> IF rawData.date = "ok" THEN "header" ELSE "now",
                    body        |-> EmptyStr,
                    htmlBody    |-> EmptyStr,
                    attachments |-> <<>>]
    IN  IF rawData.hdr = "bad" THEN failure
        ELSE IF rawData.ctype = "invalid" THEN failure
        ELSE IF rawData.ctype = "multipart-noboundary" THEN failure
        ELSE IF rawData.ctype = "multipart"
             THEN LET r == ParseMultipart(email, rawData.parts, rawData.closed)
                  IN  IF r.err THEN failure
                      ELSE [err |-> FALSE, email |-> r.email, called |-> TRUE]
        ELSE LET decoded == DecodeContent(rawData.body, rawData.cte)
             IN  IF decoded.err THEN failure
                 ELSE [err    |-> FALSE,
                       email  |-> IF rawData.ctype = "text/html"
                                  THEN [email EXCEPT !.htmlBody = decoded.out]
                                  ELSE [email EXCEPT !.body = decoded.out],
                       called |-> TRUE]

----------------------------------------------------------------------------
(* Route configuration *)

Cond(r, s, j) == [RecipientPattern |-> r, SenderPattern |-> s, SubjectPattern |-> j]

Act(t, e, u) == [Type |-> t, Enabled |-> e, url |-> u]

Url == <<"u">>

StoreLocalAct == Act("store_local", TRUE, EmptyStr)
StoreS3Act    == Act("store_s3", TRUE, EmptyStr)
WebhookAct    == Act("webhook", TRUE, Url)
WebhookNoUrl  == Act("webhook", TRUE, EmptyStr)
DisabledAct   == Act("store_s3", FALSE, EmptyStr)
UnknownAct    == Act("forward", TRUE, EmptyStr)

Route(n, e, c, a) == [Name |-> n, Enabled |-> e, Condition |-> c, Actions |-> a]

Range(f) == { f[i] : i \in DOMAIN f }

Names(routes) == [k \in 1..Len(routes) |-> routes[k].Name]

\* route lists that pass validateConfig: a name, a recipient pattern, at least one action
RoutesHookFirst ==
    << Route("capture", TRUE, Cond(PatCapture, EmptyStr, EmptyStr), <<WebhookAct, StoreLocalAct>>),
       Route("off", FALSE, Cond(PatAll, EmptyStr, EmptyStr), <<StoreS3Act>>),
       Route("hi_t", TRUE, Cond(PatAnyT, EmptyStr, PatHi), <<StoreLocalAct, DisabledAct, WebhookAct>>) >>

RoutesBadPattern ==
    << Route("broken", TRUE, Cond(PatBad, EmptyStr, EmptyStr), <<StoreLocalAct>>),
       Route("all", TRUE, Cond(PatAll, EmptyStr, EmptyStr), <<UnknownAct, StoreS3Act>>),
       Route("sender", TRUE, Cond(PatAll, PatSender, EmptyStr), <<WebhookNoUrl, StoreLocalAct>>) >>

RoutesLateBad ==
    << Route("subj_broken", TRUE, Cond(PatCapture, PatSender, PatBad), <<StoreLocalAct>>),
       Route("from_b", TRUE, Cond(PatCapture, AddrB, EmptyStr), <<StoreS3Act, WebhookAct>>) >>

RouteLists == {RoutesHookFirst, RoutesBadPattern, RoutesLateBad, <<>>}

Configs == [tls : BOOLEAN, routes : RouteLists]

----------------------------------------------------------------------------
(* Processor (pkg/email) *)

\* GetEnabledRoutes with the Enabled test lost
GetEnabledRoutes_All(routes) == routes

\* Config.GetEnabledRoutes
GetEnabledRoutes(routes) == SelectSeq(routes, LAMBDA r : r.Enabled)

\* routeMatches that lets a rule through as soon as one of its conditions matches
RouteMatches_AnyCondition(email, route) ==
    LET c == route.Condition IN
    \/ /\ c.RecipientPattern # EmptyStr /\ Compiles(c.RecipientPattern)
       /\ \E i \in 1..Len(email.to) : MatchString(c.RecipientPattern, email.to[i])
    \/ c.SenderPattern # EmptyStr /\ Compiles(c.SenderPattern)
         /\ MatchString(c.SenderPattern, email.from)
    \/ c.SubjectPattern # EmptyStr /\ Compiles(c.SubjectPattern)
         /\ MatchString(c.SubjectPattern, email.subject)
    \/ c = [RecipientPattern |-> EmptyStr, SenderPattern |-> EmptyStr,
            SubjectPattern |-> EmptyStr]

\* routeMatches that skips a condition whose pattern does not compile
RouteMatches_SkipInvalid(email, route) ==
    LET c == route.Condition
        Usable(p) == p # EmptyStr /\ Compiles(p)
    IN  /\ Usable(c.RecipientPattern)
            => \E i \in 1..Len(email.to) : MatchString(c.RecipientPattern, email.to[i])
        /\ Usable(c.SenderPattern) => MatchString(c.SenderPattern, email.from)
        /\ Usable(c.SubjectPattern) => MatchString(c.SubjectPattern, email.subject)

\* Processor.routeMatches: the three conditions in the order recipient, sender, subject;
\* a pattern is compiled only when the conditions before it let the message through
RouteMatches(email, route) ==
    LET c == route.Condition IN
    IF c.RecipientPattern # EmptyStr /\ ~Compiles(c.RecipientPattern) THEN FALSE
    ELSE IF c.RecipientPattern # EmptyStr
            /\ ~\E i \in 1..Len(email.to) : MatchString(c.RecipientPattern, email.to[i])
         THEN FALSE
    ELSE IF c.SenderPattern # EmptyStr /\ ~Compiles(c.SenderPattern) THEN FALSE
    ELSE IF c.SenderPattern # EmptyStr /\ ~MatchString(c.SenderPattern, email.from) THEN FALSE
    ELSE IF c.SubjectPattern # EmptyStr /\ ~Compiles(c.SubjectPattern) THEN FALSE
    ELSE IF c.SubjectPattern # EmptyStr /\ ~MatchString(c.SubjectPattern, email.subject)
         THEN FALSE
    ELSE TRUE

\* Processor.findMatchingRoutes
FindMatchingRoutes(email, routes) == SelectSeq(routes, LAMBDA r : RouteMatches(email, r))

SinkTypes == {"store_local", "store_s3", "webhook"}

\* the (route, action index) pairs whose outcome is decided by a sink
SinkCalls(routes) ==
    UNION { { <<routes[k].Name, i>> :
                i \in { j \in 1..Len(routes[k].Actions) :
                          /\ routes[k].Actions[j].Enabled
                          /\ routes[k].Actions[j].Type \in SinkTypes } } :
            k \in { n \in 1..Len(routes) : routes[n].Enabled } }

\* executeLocalStorage / executeS3Storage / executeWebhook: err != nil.
\* failing is the set of (route, index) pairs at which the sink reports failure;
\* a webhook action without url fails before the sink is reached.
ActionFails(route, i, failing) ==
    \/ route.Actions[i].Type = "webhook" /\ route.Actions[i].url = EmptyStr
    \/ <<route.Name, i>> \in failing

RECURSIVE ExecuteFrom_RunsDisabled(_, _, _)
\* the loop of executeRoute without the test of action.Enabled
ExecuteFrom_RunsDisabled(route, i, failing) ==
    IF i > Len(route.Actions) THEN [log |-> <<>>, err |-> FALSE]
    ELSE IF route.Actions[i].Type \notin SinkTypes
    THEN ExecuteFrom_RunsDisabled(route, i + 1, failing)
    ELSE LET entry == [route |-> route.Name, idx |-> i, type |-> route.Actions[i].Type,
                       ok |-> ~ActionFails(route, i, failing)]
         IN  IF ~entry.ok
             THEN [log |-> <<entry>>, err |-> TRUE]
             ELSE LET rest == ExecuteFrom_RunsDisabled(route, i + 1, failing)
                  IN  [log |-> <<entry>> \o rest.log, err |-> rest.err]

RECURSIVE ExecuteFrom(_, _, _)
\* the loop of Processor.executeRoute from action i on: [log, err]
ExecuteFrom(route, i, failing) ==
    IF i > Len(route.Actions) THEN [log |-> <<>>, err |-> FALSE]
    ELSE IF ~route.Actions[i].Enabled THEN ExecuteFrom(route, i + 1, failing)
    ELSE IF route.Actions[i].Type \notin SinkTypes THEN ExecuteFrom(route, i + 1, failing)
    ELSE LET entry == [route |-> route.Name, idx |-> i, type |-> route.Actions[i].Type,
                       ok |-> ~ActionFails(route, i, failing)]
         IN  IF ~entry.ok
             THEN [log |-> <<entry>>, err |-> TRUE]
             ELSE LET rest == ExecuteFrom(route, i + 1, failing)
                  IN  [log |-> <<entry>> \o rest.log, err |-> rest.err]

\* Processor.executeRoute
ExecuteRoute(route, failing) == ExecuteFrom(route, 1, failing)

\* the Client.SendWebhook calls behind a log of executed actions: executeWebhook returns
\* before the call when the action has no url, and otherwise calls SendWebhook once and
\* hands its result back
Deliveries(routes, log) ==
    LET UrlOf(e) == (CHOOSE r \in Range(routes) : r.Name = e.route).Actions[e.idx].url
    IN  SelectSeq(log, LAMBDA e : e.type = "webhook" /\ UrlOf(e) # EmptyStr)

RECURSIVE RunRoutes_Break(_, _, _)
\* the loop over matchedRoutes leaving at the first route that reports an error
RunRoutes_Break(matched, k, failing) ==
    IF k > Len(matched) THEN [fired |-> <<>>, attempted |-> <<>>]
    ELSE LET r == ExecuteRoute(matched[k], failing) IN
         IF r.err
         THEN [fired |-> <<matched[k].Name>>, attempted |-> r.log]
         ELSE LET rest == RunRoutes_Break(matched, k + 1, failing)
              IN  [fired     |-> <<matched[k].Name>> \o rest.fired,
                   attempted |-> r.log \o rest.attempted]

RECURSIVE RunRoutes(_, _, _)
\* the loop over matchedRoutes in Processor.ProcessEmail from route k on
RunRoutes(matched, k, failing) ==
    IF k > Len(matched) THEN [fired |-> <<>>, attempted |-> <<>>]
    ELSE LET r    == ExecuteRoute(matched[k], failing)
             rest == RunRoutes(matched, k + 1, failing)
         IN  [fired     |-> <<matched[k].Name>> \o rest.fired,
              attempted |-> r.log \o rest.attempted]

\* ProcessEmail treating a message without a matching route as a failure
ProcessEmail_NoMatchIsError(routes, from, to, rawData, failing) ==
    LET pr == ParseEmail(rawData, from, to) IN
    IF pr.err
    THEN [err |-> TRUE, parsed |-> pr, fired |-> <<>>, attempted |-> <<>>]
    ELSE LET matched == FindMatchingRoutes(pr.email, GetEnabledRoutes(routes))
             run     == RunRoutes(matched, 1, failing)
         IN  [err |-> matched = <<>>, parsed |-> pr,
              fired |-> run.fired, attempted |-> run.attempted]

\* ProcessEmail handing a route's error back to the session
ProcessEmail_Propagates(routes, from, to, rawData, failing) ==
    LET pr == ParseEmail(rawData, from, to) IN
    IF pr.err
    THEN [err |-> TRUE, parsed |-> pr, fired |-> <<>>, attempted |-> <<>>]
    ELSE LET matched == FindMatchingRoutes(pr.email, GetEnabledRoutes(routes))
             run     == RunRoutes(matched, 1, failing)
         IN  [err |-> \E k \in 1..Len(run.attempted) : ~run.attempted[k].ok,
              parsed |-> pr, fired |-> run.fired, attempted |-> run.attempted]

\* Processor.ProcessEmail: [err, parsed, fired, attempted]
ProcessEmail(routes, from, to, rawData, failing) ==
    LET pr == ParseEmail(rawData, from, to) IN
    IF pr.err
    THEN [err |-> TRUE, parsed |-> pr, fired |-> <<>>, attempted |-> <<>>]
    ELSE LET matched == FindMatchingRoutes(pr.email, GetEnabledRoutes(routes))
             run     == RunRoutes(matched, 1, failing)
         IN  [err |-> FALSE, parsed |-> pr, fired |-> run.fired, attempted |-> run.attempted]

----------------------------------------------------------------------------
(* Session (internal/smtp/server.go) *)

MaxRcpt == 2     \* longest recipient list explored

CmdFromArgs ==
    { <<"F","R","O","M",":","<","s","@","x",">">>,     \* FROM:<s@x>
      <<"f","r","o","m",":"," ","s","@","x">>,         \* from: s@x
      <<"F","R","O","M",":","<",">">>,                 \* FROM:<>
      <<"T","O",":","<","s","@","x",">">>,             \* TO:<s@x>
      <<>> }

CmdToArgs ==
    { <<"T","O",":","<","c","@","t",">">>,             \* TO:<c@t>
      <<"t","o",":","o","@","t"," ">>,                  \* to:o@t
      <<"F","R","O","M",":","<","c","@","t",">">>,     \* FROM:<c@t>
      <<>> }

\* the listener ports a session's connection can come from; 465 and 993 are the ports
\* startListener opens with tls.Listen when TLS is enabled
SessionPorts == {25, 465}

\* the connection handleConnection gets from a listener of the given port.
\*   tls: the connection is a TLS connection, from tls.Listen or after the handshake
\*   out: the lines of the multi-line response written to it for the last command
\*   buffered: the command lines s.reader has read ahead of the one being handled, each
\*        with the channel that carried it ("clear" or "tls")
\*   via: the channel that carried the line of the last command, and before the first
\*        command the channel the connection starts on
\*   dropped: the read-ahead lines that went away with a replaced s.reader
AcceptOn(tlsConfigured, port) ==
    [port |-> port, tls |-> tlsConfigured /\ port \in {465, 993}, out |-> <<>>,
     buffered |-> <<>>,
     via |-> IF tlsConfigured /\ port \in {465, 993} THEN "tls" ELSE "clear",
     dropped |-> 0]

\* the channel the bytes of a connection travel on
Channel(c) == IF c.tls THEN "tls" ELSE "clear"

\* s.reader.ReadString: the next line comes from the buffer when it holds one, and from
\* the connection otherwise, in which case the same read may bring one more line along
ReadLine(c, more) ==
    IF c.buffered # <<>>
    THEN [c EXCEPT !.via = Head(c.buffered), !.buffered = Tail(c.buffered)]
    ELSE [c EXCEPT !.via = Channel(c),
                   !.buffered = IF more THEN <<Channel(c)>> ELSE <<>>]

\* s.reader = bufio.NewReader(tlsConn): what the old reader had buffered is gone
NewReader(c) == [c EXCEPT !.dropped = Len(c.buffered), !.buffered = <<>>]

PlainConn == AcceptOn(FALSE, 25)

Hostname == <<"m", "x">>     \* config.Server.Hostname

\* handleEhlo: the responses slice
EhloResponses(args, tlsConfigured, tlsActive) ==
    << Hostname \o <<" ", "H", "e", "l", "l", "o", " ">> \o args >>
    \o (IF tlsConfigured /\ ~tlsActive THEN << <<"STARTTLS">> >> ELSE <<>>)
    \o << <<"SIZE 104857600">>, <<"8BITMIME">>, <<"PIPELINING">> >>

\* Session.sendMultiLineResponse: "code-text" for every line but the last, "code text"
\* for the last
SendMultiLineResponse(code, messages) ==
    [i \in 1..Len(messages) |->
        [code |-> code, sep |-> IF i = Len(messages) THEN " " ELSE "-", text |-> messages[i]]]

Cmd(v, a, m, io) == [verb |-> v, args |-> a, msg |-> m, io |-> io]

\* the k-th command (counted from 0) of the sequence
\* HELO <domain>, MAIL FROM:<a>, RCPT TO:<b>, DATA with a parseable message, QUIT
ScriptStep(k, c) ==
    CASE k = 0 -> c.verb = "HELO" /\ c.args # EmptyStr
      [] k = 1 -> c.verb = "MAIL" /\ c.args \in { <<"F","R","O","M",":","<","s","@","x",">">>,
                                                  <<"f","r","o","m",":"," ","s","@","x">> }
      [] k = 2 -> c.verb = "RCPT" /\ c.args \in { <<"T","O",":","<","c","@","t",">">>,
                                                  <<"t","o",":","o","@","t"," ">> }
      [] k = 3 -> c.verb = "DATA" /\ c.io = "ok" /\ c.msg \in {MsgPlain, MsgFrom}
      [] k = 4 -> c.verb = "QUIT"
      [] OTHER -> FALSE

\* bookkeeping shared by all handlers: what the command was, what was replied
\* a command was handled: the command, the reply codes written for it, and the
\* connection as the handler leaves it
HandledWith(c, codes, connection) ==
    /\ conn' = connection
    /\ lastCmd' = c
    /\ replies' = codes
    /\ script' = IF script >= 0 /\ ScriptStep(script, c) THEN script + 1 ELSE -1
    /\ transcript' = IF script >= 0 /\ ScriptStep(script, c) THEN transcript \o codes ELSE <<>>
    /\ dataPc' = "idle"
    /\ UNCHANGED outside

\* a command line was read and handled; connection is what the handler did to conn.
\* A line that the read brings along behind the command's line is followed up behind
\* STARTTLS only (HandledAhead): behind any other command the buffer and the connection
\* give the session the same line from the same channel.
HandledOn(c, codes, connection) == HandledWith(c, codes, ReadLine(connection, FALSE))

\* a command was handled by single-line replies, and the read of its line may have
\* brought the client's next line along
HandledAhead(c, codes) ==
    \E more \in BOOLEAN : HandledWith(c, codes, [ReadLine(conn, more) EXCEPT !.out = <<>>])

\* a command was handled by single-line replies on the connection as it is
Handled(c, codes) == HandledOn(c, codes, [conn EXCEPT !.out = <<>>])

NoDispatch == parsed' = NoEmail /\ fired' = <<>> /\ attempted' = <<>>

\* NewServer: no listener, an empty WaitGroup, the shutdown channel open
NoServer == [listeners |-> <<>>, wg |-> 0, shutdown |-> FALSE]

\* nothing of the Server runs: Start and Stop not called, no accept loop; again is how a
\* further call of Stop ended
NoPc == [start |-> "none", next |-> 1, stop |-> "none", k |-> 1, done |-> FALSE, by |-> "none",
         loops |-> <<>>, blocked |-> FALSE, again |-> "none"]

NoSession == [at |-> "none"]

\* no message was handed to a sink
NoStored == [msgs |-> <<>>, log |-> <<>>]

\* one session on its own: no DATA bytes, no Server, no second session
\* no call of SendWebhookWithRetry is under way; lastErr is the nil error
NoHook == [at |-> "idle", maxRetries |-> 0, attempt |-> 0, tries |-> <<>>, slept |-> <<>>,
           lastErr |-> [msg |-> "nil"], ret |-> [msg |-> "none"]]

Alone ==
    /\ submitted = <<>>
    /\ wire = <<>>
    /\ data = <<>>
    /\ dataPc = "idle"
    /\ server = NoServer
    /\ pc = NoPc
    /\ conns = <<>>
    /\ timer = FALSE
    /\ stored = NoStored
    /\ hook = NoHook
    /\ other = NoSession

Init ==
    /\ config \in Configs
    /\ open = TRUE
    /\ helo = EmptyStr
    /\ mailFrom = EmptyStr
    /\ rcptTo = <<>>
    /\ tlsEnabled = FALSE
    /\ \E port \in SessionPorts : conn = AcceptOn(config.tls, port)
    /\ lastCmd = Cmd("CONNECT", EmptyStr, NoMsg, "ok")
    /\ replies = <<220>>
    /\ parsed = NoEmail
    /\ fired = <<>>
    /\ attempted = <<>>
    /\ script = 0
    /\ transcript = <<>>
    /\ Alone

\* Server.handleConnection up to the command loop: a new Session, greeting 220
Connect ==
    /\ ~open
    /\ open' = TRUE
    /\ helo' = EmptyStr
    /\ mailFrom' = EmptyStr
    /\ rcptTo' = <<>>
    /\ tlsEnabled' = FALSE
    /\ \E port \in SessionPorts : conn' = AcceptOn(config.tls, port)
    /\ lastCmd' = Cmd("CONNECT", EmptyStr, NoMsg, "ok")
    /\ replies' = <<220>>
    /\ script' = 0
    /\ transcript' = <<>>
    /\ NoDispatch
    /\ UNCHANGED <<config, dataPc, outside>>

\* Server.handleConnection: ReadString fails (EOF or transport error), the loop ends
ReadError ==
    /\ open
    /\ conn.buffered = <<>>
    /\ open' = FALSE
    /\ HandledWith(Cmd("EOF", EmptyStr, NoMsg, "drop"), <<>>, [conn EXCEPT !.out = <<>>])
    /\ NoDispatch
    /\ UNCHANGED <<config, helo, mailFrom, rcptTo, tlsEnabled>>

\* Session.handleHelo
HandleHelo ==
    /\ open
    /\ \E args \in {EmptyStr, Dom} :
         IF args = EmptyStr
         THEN /\ Handled(Cmd("HELO", args, NoMsg, "ok"), <<501>>)
              /\ UNCHANGED helo
         ELSE /\ helo' = args
              /\ Handled(Cmd("HELO", args, NoMsg, "ok"), <<250>>)
    /\ NoDispatch
    /\ UNCHANGED <<config, open, mailFrom, rcptTo, tlsEnabled>>

\* Session.handleEhlo
HandleEhlo ==
    /\ open
    /\ \E args \in {EmptyStr, Dom} :
         IF args = EmptyStr
         THEN /\ Handled(Cmd("EHLO", args, NoMsg, "ok"), <<501>>)
              /\ UNCHANGED helo
         ELSE /\ helo' = args
              /\ HandledOn(Cmd("EHLO", args, NoMsg, "ok"), <<250>>,
                           [conn EXCEPT !.out = SendMultiLineResponse(250,
                                            EhloResponses(args, config.tls, tlsEnabled))])
    /\ NoDispatch
    /\ UNCHANGED <<config, open, mailFrom, rcptTo, tlsEnabled>>

\* handleStartTLS without the reset of the envelope after the handshake
HandleStartTLS_KeepsEnvelope ==
    /\ open
    /\ \E io \in {"ok", "cert_fail", "handshake_fail"} :
         IF ~config.tls
         THEN /\ io = "ok"
              /\ HandledAhead(Cmd("STARTTLS", EmptyStr, NoMsg, io), <<502>>)
              /\ UNCHANGED <<open, helo, mailFrom, rcptTo, tlsEnabled>>
         ELSE IF tlsEnabled
         THEN /\ io = "ok"
              /\ HandledAhead(Cmd("STARTTLS", EmptyStr, NoMsg, io), <<503>>)
              /\ UNCHANGED <<open, helo, mailFrom, rcptTo, tlsEnabled>>
         ELSE IF io = "cert_fail"
         THEN /\ HandledAhead(Cmd("STARTTLS", EmptyStr, NoMsg, io), <<220, 454>>)
              /\ UNCHANGED <<open, helo, mailFrom, rcptTo, tlsEnabled>>
         ELSE IF io = "handshake_fail"
         THEN /\ HandledAhead(Cmd("STARTTLS", EmptyStr, NoMsg, io), <<220>>)
              /\ open' = FALSE
              /\ UNCHANGED <<helo, mailFrom, rcptTo, tlsEnabled>>
         ELSE /\ \E more \in BOOLEAN :
                   HandledWith(Cmd("STARTTLS", EmptyStr, NoMsg, io), <<220>>,
                               NewReader([ReadLine(conn, more) EXCEPT !.tls = TRUE,
                                                                      !.out = <<>>]))
              /\ tlsEnabled' = TRUE
              /\ helo' = EmptyStr
              /\ UNCHANGED <<open, mailFrom, rcptTo>>
    /\ NoDispatch
    /\ UNCHANGED config

\* handleStartTLS going on with the reader it had before the handshake
HandleStartTLS_KeepsReader ==
    /\ open
    /\ \E io \in {"ok", "cert_fail", "handshake_fail"} :
         IF ~config.tls
         THEN /\ io = "ok"
              /\ HandledAhead(Cmd("STARTTLS", EmptyStr, NoMsg, io), <<502>>)
              /\ UNCHANGED <<open, helo, mailFrom, rcptTo, tlsEnabled>>
         ELSE IF tlsEnabled
         THEN /\ io = "ok"
              /\ HandledAhead(Cmd("STARTTLS", EmptyStr, NoMsg, io), <<503>>)
              /\ UNCHANGED <<open, helo, mailFrom, rcptTo, tlsEnabled>>
         ELSE IF io = "cert_fail"
         THEN /\ HandledAhead(Cmd("STARTTLS", EmptyStr, NoMsg, io), <<220, 454>>)
              /\ UNCHANGED <<open, helo, mailFrom, rcptTo, tlsEnabled>>
         ELSE IF io = "handshake_fail"
         THEN /\ HandledAhead(Cmd("STARTTLS", EmptyStr, NoMsg, io), <<220>>)
              /\ open' = FALSE
              /\ UNCHANGED <<helo, mailFrom, rcptTo, tlsEnabled>>
         ELSE /\ \E more \in BOOLEAN :
                   HandledWith(Cmd("STARTTLS", EmptyStr, NoMsg, io), <<220>>,
                               [ReadLine(conn, more) EXCEPT !.tls = TRUE, !.out = <<>>])
              /\ tlsEnabled' = TRUE
              /\ helo' = EmptyStr
              /\ mailFrom' = EmptyStr
              /\ rcptTo' = <<>>
              /\ UNCHANGED open
    /\ NoDispatch
    /\ UNCHANGED config

\* Session.handleStartTLS; io is what the certificate load and the handshake do
HandleStartTLS ==
    /\ open
    /\ \E io \in {"ok", "cert_fail", "handshake_fail"} :
         IF ~config.tls
         THEN /\ io = "ok"
              /\ HandledAhead(Cmd("STARTTLS", EmptyStr, NoMsg, io), <<502>>)
              /\ UNCHANGED <<open, helo, mailFrom, rcptTo, tlsEnabled>>
         ELSE IF tlsEnabled
         THEN /\ io = "ok"
              /\ HandledAhead(Cmd("STARTTLS", EmptyStr, NoMsg, io), <<503>>)
              /\ UNCHANGED <<open, helo, mailFrom, rcptTo, tlsEnabled>>
         ELSE IF io = "cert_fail"
         THEN /\ HandledAhead(Cmd("STARTTLS", EmptyStr, NoMsg, io), <<220, 454>>)
              /\ UNCHANGED <<open, helo, mailFrom, rcptTo, tlsEnabled>>
         ELSE IF io = "handshake_fail"
         THEN /\ HandledAhead(Cmd("STARTTLS", EmptyStr, NoMsg, io), <<220>>)
              /\ open' = FALSE
              /\ UNCHANGED <<helo, mailFrom, rcptTo, tlsEnabled>>
         ELSE /\ \E more \in BOOLEAN :
                   HandledWith(Cmd("STARTTLS", EmptyStr, NoMsg, io), <<220>>,
                               NewReader([ReadLine(conn, more) EXCEPT !.tls = TRUE,
                                                                      !.out = <<>>]))
              /\ tlsEnabled' = TRUE
              /\ helo' = EmptyStr
              /\ mailFrom' = EmptyStr
              /\ rcptTo' = <<>>
              /\ UNCHANGED open
    /\ NoDispatch
    /\ UNCHANGED config

\* handleMail without the test for a preceding HELO/EHLO
HandleMail_NoHeloCheck ==
    /\ open
    /\ \E args \in CmdFromArgs :
         IF ~HasPrefix(ToUpper(args), <<"F","R","O","M",":">>)
         THEN /\ Handled(Cmd("MAIL", args, NoMsg, "ok"), <<501>>)
              /\ UNCHANGED <<mailFrom, rcptTo>>
         ELSE /\ mailFrom' = StripAngle(TrimSpace(From(args, 5)))
              /\ rcptTo' = <<>>
              /\ Handled(Cmd("MAIL", args, NoMsg, "ok"), <<250>>)
    /\ NoDispatch
    /\ UNCHANGED <<config, open, helo, tlsEnabled>>

\* handleMail dropping the transaction when its argument is malformed
HandleMail_ClearsOnSyntaxError ==
    /\ open
    /\ \E args \in CmdFromArgs :
         IF helo = EmptyStr
         THEN /\ Handled(Cmd("MAIL", args, NoMsg, "ok"), <<503>>)
              /\ UNCHANGED <<mailFrom, rcptTo>>
         ELSE IF ~HasPrefix(ToUpper(args), <<"F","R","O","M",":">>)
         THEN /\ Handled(Cmd("MAIL", args, NoMsg, "ok"), <<501>>)
              /\ mailFrom' = EmptyStr
              /\ rcptTo' = <<>>
         ELSE /\ mailFrom' = StripAngle(TrimSpace(From(args, 5)))
              /\ rcptTo' = <<>>
              /\ Handled(Cmd("MAIL", args, NoMsg, "ok"), <<250>>)
    /\ NoDispatch
    /\ UNCHANGED <<config, open, helo, tlsEnabled>>

\* Session.handleMail
HandleMail ==
    /\ open
    /\ \E args \in CmdFromArgs :
         IF helo = EmptyStr
         THEN /\ Handled(Cmd("MAIL", args, NoMsg, "ok"), <<503>>)
              /\ UNCHANGED <<mailFrom, rcptTo>>
         ELSE IF ~HasPrefix(ToUpper(args), <<"F","R","O","M",":">>)
         THEN /\ Handled(Cmd("MAIL", args, NoMsg, "ok"), <<501>>)
              /\ UNCHANGED <<mailFrom, rcptTo>>
         ELSE /\ mailFrom' = StripAngle(TrimSpace(From(args, 5)))
              /\ rcptTo' = <<>>
              /\ Handled(Cmd("MAIL", args, NoMsg, "ok"), <<250>>)
    /\ NoDispatch
    /\ UNCHANGED <<config, open, helo, tlsEnabled>>

\* handleRcpt leaving out an address the list already has
HandleRcpt_Dedup ==
    /\ open
    /\ Len(rcptTo) < MaxRcpt
    /\ \E args \in CmdToArgs :
         IF mailFrom = EmptyStr
         THEN /\ Handled(Cmd("RCPT", args, NoMsg, "ok"), <<503>>)
              /\ UNCHANGED rcptTo
         ELSE IF ~HasPrefix(ToUpper(args), <<"T","O",":">>)
         THEN /\ Handled(Cmd("RCPT", args, NoMsg, "ok"), <<501>>)
              /\ UNCHANGED rcptTo
         ELSE /\ rcptTo' = IF StripAngle(TrimSpace(From(args, 3))) \in Range(rcptTo)
                           THEN rcptTo
                           ELSE Append(rcptTo, StripAngle(TrimSpace(From(args, 3))))
              /\ Handled(Cmd("RCPT", args, NoMsg, "ok"), <<250>>)
    /\ NoDispatch
    /\ UNCHANGED <<config, open, helo, mailFrom, tlsEnabled>>

\* Session.handleRcpt
HandleRcpt ==
    /\ open
    /\ Len(rcptTo) < MaxRcpt
    /\ \E args \in CmdToArgs :
         IF mailFrom = EmptyStr
         THEN /\ Handled(Cmd("RCPT", args, NoMsg, "ok"), <<503>>)
              /\ UNCHANGED rcptTo
         ELSE IF ~HasPrefix(ToUpper(args), <<"T","O",":">>)
         THEN /\ Handled(Cmd("RCPT", args, NoMsg, "ok"), <<501>>)
              /\ UNCHANGED rcptTo
         ELSE /\ rcptTo' = Append(rcptTo, StripAngle(TrimSpace(From(args, 3))))
              /\ Handled(Cmd("RCPT", args, NoMsg, "ok"), <<250>>)
    /\ NoDispatch
    /\ UNCHANGED <<config, open, helo, mailFrom, tlsEnabled>>

\* handleData ending the session when ProcessEmail reports an error
HandleData_ClosesOnError ==
    /\ open
    /\ IF rcptTo = <<>>
       THEN /\ Handled(Cmd("DATA", EmptyStr, NoMsg, "ok"), <<503>>)
            /\ NoDispatch
            /\ UNCHANGED <<open, mailFrom, rcptTo>>
       ELSE \/ /\ Handled(Cmd("DATA", EmptyStr, NoMsg, "drop"), <<354>>)
               /\ NoDispatch
               /\ open' = FALSE
               /\ UNCHANGED <<mailFrom, rcptTo>>
            \/ \E msg \in Messages, failing \in SUBSET SinkCalls(config.routes) :
                 LET res == ProcessEmail(config.routes, mailFrom, rcptTo, msg, failing) IN
                 /\ parsed' = res.parsed
                 /\ fired' = res.fired
                 /\ attempted' = res.attempted
                 /\ IF res.err
                    THEN /\ Handled(Cmd("DATA", EmptyStr, msg, "ok"), <<354, 554>>)
                         /\ open' = FALSE
                         /\ UNCHANGED <<mailFrom, rcptTo>>
                    ELSE /\ Handled(Cmd("DATA", EmptyStr, msg, "ok"), <<354, 250>>)
                         /\ mailFrom' = EmptyStr
                         /\ rcptTo' = <<>>
                         /\ UNCHANGED open
    /\ UNCHANGED <<config, helo, tlsEnabled>>

\* the read loop handing what it has to ProcessEmail when the read fails
ReceiveData_ProcessesPartial ==
    \E msg \in Messages, failing \in SUBSET SinkCalls(config.routes), io \in {"ok", "drop"} :
      LET res == ProcessEmail(config.routes, mailFrom, rcptTo, msg, failing) IN
      /\ parsed' = res.parsed
      /\ fired' = res.fired
      /\ attempted' = res.attempted
      /\ IF io = "drop"
         THEN /\ Handled(Cmd("DATA", EmptyStr, msg, "drop"), <<354>>)
              /\ open' = FALSE
              /\ UNCHANGED <<mailFrom, rcptTo>>
         ELSE IF res.err
         THEN /\ Handled(Cmd("DATA", EmptyStr, msg, "ok"), <<354, 554>>)
              /\ UNCHANGED <<open, mailFrom, rcptTo>>
         ELSE /\ Handled(Cmd("DATA", EmptyStr, msg, "ok"), <<354, 250>>)
              /\ mailFrom' = EmptyStr
              /\ rcptTo' = <<>>
              /\ UNCHANGED open

\* Session.handleData from the 354 reply on: the read loop up to the terminator line (or
\* a read error), ProcessEmail, the final reply
ReceiveData ==
    \/ /\ Handled(Cmd("DATA", EmptyStr, NoMsg, "drop"), <<354>>)
       /\ NoDispatch
       /\ open' = FALSE
       /\ UNCHANGED <<mailFrom, rcptTo>>
    \/ \E msg \in Messages, failing \in SUBSET SinkCalls(config.routes) :
         LET res == ProcessEmail(config.routes, mailFrom, rcptTo, msg, failing) IN
         /\ parsed' = res.parsed
         /\ fired' = res.fired
         /\ attempted' = res.attempted
         /\ IF res.err
            THEN /\ Handled(Cmd("DATA", EmptyStr, msg, "ok"), <<354, 554>>)
                 /\ UNCHANGED <<mailFrom, rcptTo>>
            ELSE /\ Handled(Cmd("DATA", EmptyStr, msg, "ok"), <<354, 250>>)
                 /\ mailFrom' = EmptyStr
                 /\ rcptTo' = <<>>
         /\ UNCHANGED open

\* Session.handleData, with Processor.ProcessEmail inside it; io = "drop" is a read
\* error before the terminator line
HandleData ==
    /\ open
    /\ IF rcptTo = <<>>
       THEN /\ Handled(Cmd("DATA", EmptyStr, NoMsg, "ok"), <<503>>)
            /\ NoDispatch
            /\ UNCHANGED <<open, mailFrom, rcptTo>>
       ELSE ReceiveData
    /\ UNCHANGED <<config, helo, tlsEnabled>>

\* handleRset forgetting the HELO domain as well
HandleRset_ClearsHelo ==
    /\ open
    /\ helo' = EmptyStr
    /\ mailFrom' = EmptyStr
    /\ rcptTo' = <<>>
    /\ Handled(Cmd("RSET", EmptyStr, NoMsg, "ok"), <<250>>)
    /\ NoDispatch
    /\ UNCHANGED <<config, open, tlsEnabled>>

\* Session.handleRset
HandleRset ==
    /\ open
    /\ mailFrom' = EmptyStr
    /\ rcptTo' = <<>>
    /\ Handled(Cmd("RSET", EmptyStr, NoMsg, "ok"), <<250>>)
    /\ NoDispatch
    /\ UNCHANGED <<config, open, helo, tlsEnabled>>

\* Session.handleQuit
HandleQuit ==
    /\ open
    /\ open' = FALSE
    /\ Handled(Cmd("QUIT", EmptyStr, NoMsg, "ok"), <<221>>)
    /\ NoDispatch
    /\ UNCHANGED <<config, helo, mailFrom, rcptTo, tlsEnabled>>

\* Session.handleCommand, case "NOOP"
HandleNoop ==
    /\ open
    /\ Handled(Cmd("NOOP", EmptyStr, NoMsg, "ok"), <<250>>)
    /\ NoDispatch
    /\ UNCHANGED <<config, open, helo, mailFrom, rcptTo, tlsEnabled>>

\* the default case of handleCommand ending the session after its 500
HandleUnknown_Closes ==
    /\ open
    /\ open' = FALSE
    /\ Handled(Cmd("VRFY", EmptyStr, NoMsg, "ok"), <<500>>)
    /\ NoDispatch
    /\ UNCHANGED <<config, helo, mailFrom, rcptTo, tlsEnabled>>

\* Session.handleCommand, default case
HandleUnknown ==
    /\ open
    /\ Handled(Cmd("VRFY", EmptyStr, NoMsg, "ok"), <<500>>)
    /\ NoDispatch
    /\ UNCHANGED <<config, open, helo, mailFrom, rcptTo, tlsEnabled>>

Next ==
    \/ Connect
    \/ ReadError
    \/ HandleHelo
    \/ HandleEhlo
    \/ HandleStartTLS
    \/ HandleMail
    \/ HandleRcpt
    \/ HandleData
    \/ HandleRset
    \/ HandleQuit
    \/ HandleNoop
    \/ HandleUnknown

Spec == Init /\ [][Next]_vars

----------------------------------------------------------------------------
(* Route matching on its own: Processor.findMatchingRoutes applied to one    *)
(* rule and one parsed email, both drawn from bounded sets.  The email is    *)
(* held in parsed, the rule in config, the outcome in fired.                 *)

Patterns == {EmptyStr, PatCapture, PatAnyT, PatSender, PatHi, AddrB, PatAll, PatBad}

RcptLists == UNION { [1..n -> {AddrC, AddrO}] : n \in 0..MaxRcpt }

Emails == [from : {AddrS, AddrB}, to : RcptLists, subject : {SubjHi, SubjAd, EmptyStr}]

InitMatch ==
    /\ \E r \in Patterns, f \in Patterns, j \in Patterns :
         config = [tls |-> FALSE,
                   routes |-> <<Route("rule", TRUE, Cond(r, f, j), <<StoreLocalAct>>)>>]
    /\ \E e \in Emails : parsed = [err |-> FALSE, email |-> e, called |-> TRUE]
    /\ open = FALSE
    /\ helo = EmptyStr
    /\ mailFrom = EmptyStr
    /\ rcptTo = <<>>
    /\ tlsEnabled = FALSE
    /\ conn = PlainConn
    /\ lastCmd = Cmd("CONNECT", EmptyStr, NoMsg, "ok")
    /\ replies = <<>>
    /\ fired = <<>>
    /\ attempted = <<>>
    /\ script = -1
    /\ transcript = <<>>
    /\ Alone

\* Processor.findMatchingRoutes on the enabled routes
ApplyMatch ==
    /\ lastCmd.verb = "CONNECT"
    /\ lastCmd' = Cmd("MATCH", EmptyStr, NoMsg, "ok")
    /\ fired' = Names(FindMatchingRoutes(parsed.email, GetEnabledRoutes(config.routes)))
    /\ UNCHANGED <<config, open, helo, mailFrom, rcptTo, tlsEnabled, conn, replies, parsed,
                   attempted, script, transcript, dataPc, outside>>

NextMatch == ApplyMatch

SpecMatch == InitMatch /\ [][NextMatch]_vars

----------------------------------------------------------------------------
(* Properties *)

EnvelopeKept == UNCHANGED <<helo, mailFrom, rcptTo>>

CanonicalReplies == <<250, 250, 250, 354, 250, 221>>

\* number of reply codes owed after the first k commands of the canonical sequence
Owed(k) == IF k <= 3 THEN k ELSE k + 1

\* C1: on a fresh connection HELO <domain>, MAIL FROM:<a>, RCPT TO:<b>, DATA with a
\* parseable message and QUIT are answered 250, 250, 250, 354 250, 221 in this order,
\* and the session has ended after the 221.
C1_CanonicalTransaction ==
    script >= 0 =>
        /\ transcript = SubSeq(CanonicalReplies, 1, Owed(script))
        /\ open = (script < 5)

C1_Witness == script = 5 /\ lastCmd.verb = "QUIT" /\ Len(transcript) = 6

\* C2: MAIL without a stored HELO/EHLO domain, RCPT with an empty mailFrom and DATA with
\* an empty rcptTo are each answered 503 and nothing else (no 354), and leave
\* helo, mailFrom and rcptTo as they were.
C2_OrderErrors ==
    [][ /\ (lastCmd'.verb = "MAIL" /\ helo = EmptyStr)
            => (replies' = <<503>> /\ EnvelopeKept /\ open')
        /\ (lastCmd'.verb = "RCPT" /\ mailFrom = EmptyStr)
            => (replies' = <<503>> /\ EnvelopeKept /\ open')
        /\ (lastCmd'.verb = "DATA" /\ rcptTo = <<>>)
            => (replies' = <<503>> /\ EnvelopeKept /\ open') ]_vars

C2_Witness ==
    /\ lastCmd.verb = "RCPT" /\ replies = <<503>>
    /\ helo # EmptyStr /\ mailFrom = EmptyStr /\ rcptTo = <<>>

\* C3: STARTTLS on a session whose TLS is active is answered 503 and changes nothing;
\* right after a successful STARTTLS handshake helo, mailFrom and rcptTo are empty,
\* whatever they were before.
C3_StartTLS ==
    [][ /\ (lastCmd'.verb = "STARTTLS" /\ tlsEnabled)
            => (replies' = <<503>> /\ EnvelopeKept /\ UNCHANGED <<open, tlsEnabled>>)
        /\ (lastCmd'.verb = "STARTTLS" /\ ~tlsEnabled /\ tlsEnabled')
            => (helo' = EmptyStr /\ mailFrom' = EmptyStr /\ rcptTo' = <<>>) ]_vars

\* a second STARTTLS was refused on a session that had an envelope again
C3_Witness ==
    /\ lastCmd.verb = "STARTTLS" /\ replies = <<503>> /\ tlsEnabled
    /\ rcptTo # <<>>

\* C4: when the message of a DATA cannot be parsed the reply is 554, no route is executed
\* and no sink is called, and the connection stays open for the next command.
C4_ParseFailure ==
    (lastCmd.verb = "DATA" /\ parsed.called /\ parsed.err) =>
        /\ replies = <<354, 554>>
        /\ fired = <<>>
        /\ attempted = <<>>
        /\ open

C4_Witness ==
    /\ lastCmd.verb = "DATA" /\ lastCmd.msg = MsgNoBoundary /\ replies = <<354, 554>>
    /\ SinkCalls(config.routes) # {}

\* C5: after a DATA answered 554 the session is back in Greeted or HaveSender: rcptTo is
\* empty (so that a DATA issued right afterwards would be answered 503).
C5_Original ==
    (lastCmd.verb = "DATA" /\ replies = <<354, 554>>) => rcptTo = <<>>

\* strings.Contains, used to say what the patterns of the route lists denote
Contains(s, t) == \E i \in 1..(Len(s) - Len(t) + 1) : SubSeq(s, i, i + Len(t) - 1) = t

\* what each pattern in use means for a subject string s; PatBad means nothing
Denotes(p, s) ==
    CASE p = PatCapture -> Contains(s, <<"c", "@">>)
      [] p = PatAnyT    -> HasSuffix(s, <<"@", "t">>)
      [] p = PatSender  -> HasPrefix(s, <<"s", "@">>)
      [] p = PatHi      -> Contains(s, <<"h", "i">>)
      [] p = AddrB      -> Contains(s, <<"b", "@", "y">>)
      [] p = PatAll     -> TRUE
      [] OTHER          -> FALSE

\* a condition is empty, or its pattern matches one of the strings
CondHolds(p, strs) == p = EmptyStr \/ \E x \in strs : Denotes(p, x)

\* every non-empty condition of the rule matches the message
RuleApplies(email, route) ==
    /\ CondHolds(route.Condition.RecipientPattern, Range(email.to))
    /\ CondHolds(route.Condition.SenderPattern, {email.from})
    /\ CondHolds(route.Condition.SubjectPattern, {email.subject})

\* the rules, in configuration order, that are enabled and apply to the message
Applicable(email, routes) == SelectSeq(routes, LAMBDA r : r.Enabled /\ RuleApplies(email, r))

RouteNamed(n) == CHOOSE r \in Range(config.routes) : r.Name = n

\* the indices of the enabled store/webhook actions of a route
EnabledSinkActions(r) ==
    { i \in 1..Len(r.Actions) : r.Actions[i].Enabled /\ r.Actions[i].Type \in SinkTypes }

Ran(n, i) == \E k \in 1..Len(attempted) : attempted[k].route = n /\ attempted[k].idx = i

Delivered == lastCmd.verb = "DATA" /\ parsed.called /\ ~parsed.err

\* C6: within a rule that was executed, a failing action does not keep the other enabled
\* actions of the rule from being executed, whatever their order.
C6_ActionsIsolated ==
    Delivered =>
        \A n \in Range(fired) : \A i \in EnabledSinkActions(RouteNamed(n)) : Ran(n, i)

\* C7: a failure while executing one matched rule does not keep the later matched rules
\* from being executed: every enabled rule that applies to the message is started
\* (its first enabled action is run), also behind a rule whose execution failed.
C7_RulesIsolated ==
    Delivered =>
        \A r \in Range(config.routes) :
            (r.Enabled /\ RuleApplies(parsed.email, r)) =>
                /\ r.Name \in Range(fired)
                /\ \A i \in EnabledSinkActions(r) :
                       (\A j \in EnabledSinkActions(r) : i <= j) => Ran(r.Name, i)

\* a rule failed and a later rule was executed all the same
C7_Witness ==
    /\ Delivered
    /\ \E a, b \in 1..Len(attempted) :
         /\ a < b
         /\ ~attempted[a].ok
         /\ attempted[a].route # attempted[b].route

\* C8: the rules that fire for a message are exactly the enabled rules whose condition
\* applies, each once and in configuration order; a disabled rule never fires.
C8_AllMatchesFire ==
    Delivered => fired = Names(Applicable(parsed.email, config.routes))

\* two rules fired for one message while a disabled rule that applies stayed silent
C8_Witness ==
    /\ Delivered
    /\ Len(fired) = 2
    /\ \E r \in Range(config.routes) : ~r.Enabled /\ RuleApplies(parsed.email, r)

\* C9: a rule matches a message exactly when each of its non-empty conditions matches:
\* the recipient pattern some address of email.to (anywhere in it), the sender pattern
\* email.from, the subject pattern email.subject; a rule whose three conditions are
\* empty matches every message.
C9_MatchIffAllConditions ==
    lastCmd.verb = "MATCH" =>
        \A r \in Range(config.routes) :
            /\ (r.Name \in Range(fired)) <=> RuleApplies(parsed.email, r)
            /\ r.Condition = Cond(EmptyStr, EmptyStr, EmptyStr) => r.Name \in Range(fired)

\* a rule with three conditions matched on the second recipient only
C9_Witness ==
    /\ lastCmd.verb = "MATCH"
    /\ fired = <<"rule">>
    /\ config.routes[1].Condition = Cond(PatCapture, PatSender, PatHi)
    /\ parsed.email.to = <<AddrO, AddrC>>

\* C10: a rule with a pattern that does not compile fires for no message, DATA is still
\* answered 250, and the other rules are evaluated and fire as if it were absent.
C10_InvalidPattern ==
    Delivered =>
        /\ replies = <<354, 250>>
        /\ \A r \in Range(config.routes) :
              (PatBad \in {r.Condition.RecipientPattern, r.Condition.SenderPattern,
                           r.Condition.SubjectPattern}) => r.Name \notin Range(fired)
        /\ \A r \in Range(config.routes) :
              (/\ r.Enabled
               /\ PatBad \notin {r.Condition.RecipientPattern, r.Condition.SenderPattern,
                                 r.Condition.SubjectPattern}
               /\ RuleApplies(parsed.email, r)) => r.Name \in Range(fired)

\* behind a rule whose pattern does not compile another rule fired, and DATA got 250
C10_Witness ==
    /\ Delivered
    /\ replies = <<354, 250>>
    /\ config.routes # <<>>
    /\ config.routes[1].Condition.RecipientPattern = PatBad
    /\ fired # <<>>

\* C11: a message that parses and matches no enabled rule is dropped silently: no route
\* is executed, no storage or webhook sink is called, and DATA is answered 250.
C11_NoMatchDropped ==
    (Delivered /\ Applicable(parsed.email, config.routes) = <<>>) =>
        /\ fired = <<>>
        /\ attempted = <<>>
        /\ replies = <<354, 250>>
        /\ open

\* rules were configured and enabled, and none of them applied to the message
C11_Witness ==
    /\ Delivered
    /\ \E r \in Range(config.routes) : r.Enabled /\ EnabledSinkActions(r) # {}
    /\ Applicable(parsed.email, config.routes) = <<>>
    /\ replies = <<354, 250>>

\* C17: a failed delivery attempt of a webhook action is followed by another attempt for
\* the same action (retries, bounded in number) before the action is reported as failed.
C17_WebhookRetried ==
    Delivered =>
        LET sent == Deliveries(config.routes, attempted) IN
        \A k \in 1..Len(sent) :
            ~sent[k].ok =>
                \E m \in (k + 1)..Len(sent) :
                    sent[m].route = sent[k].route /\ sent[m].idx = sent[k].idx

\* C29: when dispatch of a successfully parsed message fails (an enabled action of a
\* matched rule reports failure), the reply to DATA is 554 and the connection stays open.
C29_DispatchFailureIs554 ==
    (Delivered /\ \E k \in 1..Len(attempted) : ~attempted[k].ok) =>
        (replies = <<354, 554>> /\ open)

\* the texts of the lines of the last multi-line response
OutTexts == [i \in 1..Len(conn.out) |-> conn.out[i].text]

\* C27: the EHLO reply advertises STARTTLS if and only if TLS is enabled in the
\* configuration and TLS is not already active on the connection, whether it became
\* active through an earlier STARTTLS or because the connection was accepted on an
\* implicit-TLS listener; the reply lines are, in order, hostname Hello, [STARTTLS], SIZE,
\* 8BITMIME, PIPELINING, with a hyphen separator on every line but the last.
C27_EhloAdvertisesStartTLS ==
    (lastCmd.verb = "EHLO" /\ replies = <<250>>) =>
        LET offered == \E i \in 1..Len(conn.out) : conn.out[i].text = <<"STARTTLS">>
        IN  /\ offered <=> (config.tls /\ ~conn.tls)
            /\ OutTexts = << Hostname \o <<" ", "H", "e", "l", "l", "o", " ">> \o lastCmd.args >>
                           \o (IF offered THEN << <<"STARTTLS">> >> ELSE <<>>)
                           \o << <<"SIZE 104857600">>, <<"8BITMIME">>, <<"PIPELINING">> >>
            /\ \A i \in 1..Len(conn.out) :
                   /\ conn.out[i].code = 250
                   /\ conn.out[i].sep = IF i = Len(conn.out) THEN " " ELSE "-"

\* C28: once the server has replied 220 to STARTTLS, it never sends another cleartext
\* reply on that connection: either the handshake succeeds and every later reply travels
\* over the encrypted channel, or the connection is terminated without a reply (also
\* when the certificate cannot be obtained).
C28_NoCleartextAfter220 ==
    /\ [](\/ lastCmd.verb # "STARTTLS"
          \/ replies = <<>>
          \/ replies[1] # 220
          \/ replies = <<220>> /\ (conn.tls \/ ~open))
    /\ [][(conn.tls /\ lastCmd'.verb # "CONNECT") => conn'.tls]_vars

ErrorCodes == {500, 501, 502, 503, 554}

\* the last reply written for the last command is an error reply
ErrorReplied == replies # <<>> /\ replies[Len(replies)] \in ErrorCodes

\* a step that ends the session is QUIT, a failed read or a failed handshake, and a step
\* with an error reply does not end it
EndsAsAllowed ==
    /\ (open /\ ~open') =>
           \/ lastCmd'.verb = "QUIT" /\ replies' = <<221>>
           \/ lastCmd'.io = "drop"
           \/ lastCmd'.verb = "STARTTLS" /\ lastCmd'.io = "handshake_fail"
    /\ (open /\ ErrorReplied') => open'

\* C31: a session ends only after QUIT (answered 221), after a transport error or end of
\* input on the connection, or after a failed TLS handshake; no error reply (500, 501,
\* 502, 503, 554) is followed by the server closing the connection, and after any such
\* reply the next command is processed normally.
C31_SessionEndsOnlyOnQuitOrTransport ==
    /\ []((open /\ ErrorReplied) =>
             /\ ENABLED HandleHelo /\ ENABLED HandleEhlo /\ ENABLED HandleStartTLS
             /\ ENABLED HandleMail /\ ENABLED HandleData /\ ENABLED HandleRset
             /\ ENABLED HandleQuit /\ ENABLED HandleNoop /\ ENABLED HandleUnknown)
    /\ [][EndsAsAllowed]_vars

\* DATA without recipients was answered 503 and the session goes on
C31_Witness ==
    /\ lastCmd.verb = "DATA"
    /\ replies = <<503>>
    /\ helo # EmptyStr
    /\ open

\* a MAIL or RCPT argument with the keyword the command wants
WellFormed(c) ==
    \/ c.verb = "MAIL" /\ HasPrefix(ToUpper(c.args), <<"F","R","O","M",":">>)
    \/ c.verb = "RCPT" /\ HasPrefix(ToUpper(c.args), <<"T","O",":">>)

\* an RSET step keeps the HELO domain, the TLS status and the session
RsetKeeps ==
    lastCmd'.verb = "RSET" =>
        /\ helo' = helo
        /\ tlsEnabled' = tlsEnabled
        /\ conn'.tls = conn.tls
        /\ open'

\* the command right after an RSET
AfterRset ==
    lastCmd.verb = "RSET" =>
        /\ (lastCmd'.verb = "MAIL" /\ helo # EmptyStr /\ WellFormed(lastCmd')) =>
               replies' = <<250>>
        /\ lastCmd'.verb = "RCPT" => replies' = <<503>>
        /\ lastCmd'.verb = "DATA" => replies' = <<503>>

\* C33: RSET is answered 250 in every state (also before HELO), empties mailFrom and
\* rcptTo, and leaves heloDomain and the TLS status unchanged, so that after RSET a MAIL
\* is accepted without a new HELO while RCPT and DATA are answered 503.
C33_RsetClearsTransaction ==
    /\ [](open => ENABLED HandleRset)
    /\ [](lastCmd.verb = "RSET" =>
             (replies = <<250>> /\ mailFrom = EmptyStr /\ rcptTo = <<>>))
    /\ [][RsetKeeps /\ AfterRset]_vars

\* RSET was answered on a session that has said HELO and is under TLS
C33_Witness ==
    /\ lastCmd.verb = "RSET"
    /\ replies = <<250>>
    /\ helo # EmptyStr
    /\ tlsEnabled
    /\ open

\* the step handled NOOP, an unrecognized verb, or a HELO, EHLO, MAIL or RCPT whose
\* argument is missing or malformed
NoEffectCommand ==
    \/ lastCmd'.verb = "NOOP" /\ replies' = <<250>>
    \/ lastCmd'.verb \notin {"HELO", "EHLO", "STARTTLS", "MAIL", "RCPT", "DATA", "RSET",
                              "QUIT", "NOOP", "CONNECT", "EOF"} /\ replies' = <<500>>
    \/ lastCmd'.verb \in {"HELO", "EHLO", "MAIL", "RCPT"} /\ replies' = <<501>>

\* C34: NOOP (answered 250), an unrecognized verb (answered 500), and a HELO/EHLO, MAIL or
\* RCPT with a missing or malformed argument (answered 501) leave heloDomain, mailFrom,
\* rcptTo and the TLS status exactly as they were.
C34_NoEffectCommands ==
    [][NoEffectCommand =>
          /\ helo' = helo
          /\ mailFrom' = mailFrom
          /\ rcptTo' = rcptTo
          /\ tlsEnabled' = tlsEnabled
          /\ conn'.tls = conn.tls]_vars

\* a malformed MAIL was answered 501 inside a transaction that has a recipient
C34_Witness ==
    /\ lastCmd.verb = "MAIL"
    /\ replies = <<501>>
    /\ mailFrom # EmptyStr
    /\ rcptTo # <<>>
    /\ open

\* the address a MAIL (n = 5) or RCPT (n = 3) argument names
AddressIn(args, n) == StripAngle(TrimSpace(From(args, n)))

\* the step ends a transaction: a new connection, RSET, a completed STARTTLS, or a DATA
\* answered 250
EndsTransaction ==
    \/ lastCmd'.verb \in {"CONNECT", "RSET"}
    \/ lastCmd'.verb = "STARTTLS" /\ replies' = <<220>> /\ lastCmd'.io = "ok"
    \/ lastCmd'.verb = "DATA" /\ replies' = <<354, 250>>

\* the envelope after a step, command by command
EnvelopeStep ==
    IF lastCmd'.verb = "MAIL" /\ replies' = <<250>>
    THEN mailFrom' = AddressIn(lastCmd'.args, 5) /\ rcptTo' = <<>>
    ELSE IF lastCmd'.verb = "RCPT" /\ replies' = <<250>>
    THEN mailFrom' = mailFrom /\ rcptTo' = Append(rcptTo, AddressIn(lastCmd'.args, 3))
    ELSE IF EndsTransaction
    THEN mailFrom' = EmptyStr /\ rcptTo' = <<>>
    ELSE mailFrom' = mailFrom /\ rcptTo' = rcptTo

\* the envelope ParseEmail got in a DATA step is the session's envelope before the step
EnvelopeHanded ==
    (lastCmd'.verb = "DATA" /\ parsed'.called /\ ~parsed'.err) =>
        /\ parsed'.email.to = rcptTo
        /\ lastCmd'.msg.fromHdr = EmptyStr => parsed'.email.from = mailFrom

\* C32: the envelope handed to the pipeline for a DATA consists of the address of the most
\* recent accepted MAIL and exactly the addresses of the RCPT commands accepted since that
\* MAIL, in arrival order with duplicates kept; recipients accepted before a later MAIL,
\* before an RSET, before a STARTTLS or in a transaction already completed with 250 are
\* never included, and after a 250 to DATA mailFrom and rcptTo are empty.
C32_EnvelopeOfTransaction == [][EnvelopeStep /\ EnvelopeHanded]_vars

\* a message was accepted for the same recipient given twice
C32_Witness ==
    /\ Delivered
    /\ parsed.email.to = <<AddrC, AddrC>>
    /\ replies = <<354, 250>>
    /\ mailFrom = EmptyStr
    /\ rcptTo = <<>>

\* a well-formed RCPT right after a MAIL answered 250 is answered 250
RcptAfterMail ==
    (/\ lastCmd.verb = "MAIL" /\ replies = <<250>>
     /\ lastCmd'.verb = "RCPT" /\ WellFormed(lastCmd')) => replies' = <<250>>

\* C39: every MAIL command answered 250 moves the session to the HaveSender state: a
\* well-formed RCPT TO issued directly afterwards is answered 250, for every accepted
\* reverse-path including the empty (null) one given as MAIL FROM:<>.
C39_MailAcceptedThenRcpt == [][RcptAfterMail]_vars

\* the read of the message failed before the terminator line
DataDropped == lastCmd.verb = "DATA" /\ lastCmd.io = "drop"

\* C37: a message is handed to the parser and dispatcher only after its terminator line
\* has been received: if the connection fails or is closed by the client after the 354
\* reply and before the terminator, nothing is parsed, stored or sent to a webhook, no
\* final reply is sent, and the session ends.
C37_NothingBeforeTerminator ==
    /\ DataDropped => /\ replies = <<354>>
                      /\ ~parsed.called
                      /\ fired = <<>>
                      /\ attempted = <<>>
                      /\ ~open
    /\ (parsed.called \/ fired # <<>> \/ attempted # <<>>) =>
           (lastCmd.verb = "DATA" /\ lastCmd.io = "ok" /\ Len(replies) = 2)

\* the connection failed in the middle of a message for an accepted recipient
C37_Witness == DataDropped /\ rcptTo # <<>> /\ mailFrom # EmptyStr /\ ~open

\* the place of a rule among the rules that matched
MatchedAt(n) == CHOOSE p \in 1..Len(fired) : fired[p] = n

\* entry j of the log of executed actions comes before entry k in rule-then-action order
InDeclaredOrder(j, k) ==
    \/ MatchedAt(attempted[j].route) < MatchedAt(attempted[k].route)
    \/ /\ attempted[j].route = attempted[k].route
       /\ attempted[j].idx < attempted[k].idx

\* C35: for each matched rule the enabled actions are executed one at a time in their
\* declared order (an action starts only after the previous one has returned), a disabled
\* action is never executed, and all actions of an earlier matched rule are executed before
\* any action of a later matched rule.
C35_ActionsInDeclaredOrder ==
    /\ \A k \in 1..Len(attempted) :
          /\ attempted[k].route \in Range(fired)
          /\ RouteNamed(attempted[k].route).Actions[attempted[k].idx].Enabled
    /\ \A j, k \in 1..Len(attempted) : j < k => InDeclaredOrder(j, k)

\* two matched rules ran, the second one with a disabled action between two enabled ones
C35_Witness ==
    /\ Delivered
    /\ Len(fired) >= 2
    /\ Len(attempted) >= 4
    /\ \E n \in Range(fired) :
          /\ \E i \in 1..Len(RouteNamed(n).Actions) : ~RouteNamed(n).Actions[i].Enabled
          /\ \E j, k \in 1..Len(attempted) :
                /\ attempted[j].route = n /\ attempted[k].route = n
                /\ attempted[k].idx > attempted[j].idx + 1

\* the last command is one the session processed after its upgrade to TLS
AfterUpgrade ==
    /\ tlsEnabled
    /\ lastCmd.verb \notin {"CONNECT", "EOF"}
    /\ ~(lastCmd.verb = "STARTTLS" /\ replies = <<220>>)

\* C38: bytes that the client sent in cleartext after the STARTTLS command line and before
\* the TLS handshake completed (pipelined commands) are never interpreted as commands of
\* the encrypted session: every command processed after a successful upgrade was received
\* over the encrypted channel.
C38_NoCleartextCommandAfterUpgrade ==
    /\ AfterUpgrade => conn.via = "tls"
    /\ tlsEnabled => \A i \in 1..Len(conn.buffered) : conn.buffered[i] = "tls"

\* a command line was pipelined behind STARTTLS in cleartext, the upgrade succeeded, and
\* a MAIL sent over TLS was accepted afterwards
C38_Witness ==
    /\ tlsEnabled
    /\ conn.dropped > 0
    /\ lastCmd.verb = "MAIL"
    /\ replies = <<250>>
    /\ conn.via = "tls"

----------------------------------------------------------------------------
(* ParseEmail as a function: a message and an envelope are chosen, then     *)
(* parsed.  lastCmd.msg is the message, mailFrom and rcptTo the envelope.   *)

Utf8 == <<"U", "T", "F", "-", "8">>

EncodedWord(charset, encoding, text) ==
    <<"=", "?">> \o charset \o <<"?", encoding, "?">> \o text \o <<"?", "=">>

WordTest   == EncodedWord(Utf8, "B", <<"V", "G", "V", "z", "d", "A", "=", "=">>)  \* "Test"
WordBadB64 == EncodedWord(Utf8, "B", <<"!", "!">>)                     \* does not decode
WordKoi    == EncodedWord(<<"k", "o", "i">>, "B", <<"Q", "U", "J", "D">>)  \* unknown charset

EncBase64      == <<"b", "a", "s", "e", "6", "4">>
EncBase64Upper == <<" ", "B", "A", "S", "E", "6", "4">>
EncQP          == <<"q", "u", "o", "t", "e", "d", "-", "p", "r", "i", "n", "t", "a", "b", "l", "e">>
Enc7bit        == <<"7", "b", "i", "t">>
EncUnknown     == <<"x", "-", "z", "i", "p">>

Encodings == {EmptyStr, EncBase64, EncBase64Upper, EncQP, Enc7bit, EncUnknown}

B64ABC     == <<"Q", "U", "J", "D">>                 \* base64 of "ABC"
B64Lines   == <<"Q", "Q", "=", "=", CR, LF>>         \* base64 of "A" and a line end
B64Invalid == <<"Q", "U", "!", "D">>
QPText     == <<"a", "=", "4", "1", "=", CR, LF, "b">>   \* quoted-printable of "aAb"

Bodies == {B64ABC, B64Lines, B64Invalid, QPText}

PartPlain   == Part("text/plain", "", EmptyStr, EmptyStr, BodyText)
PartHtmlB64 == Part("text/html", "inline", EmptyStr, EncBase64, B64ABC)
PartPdfBad  == Part("application/pdf", "attachment", <<"f">>, EncBase64, B64Invalid)
PartPng     == Part("image/png", "", EmptyStr, EncBase64, B64ABC)

NameTest == <<"t", "e", "s", "t", ".", "t", "x", "t">>

PartTestTxt  == Part("text/plain", "attachment", NameTest, EmptyStr, BodyText)
PartUnnamed  == Part("text/plain", "attachment", EmptyStr, EmptyStr, B64ABC)
PartAppText  == Part("application/text", "", EmptyStr, EmptyStr, B64ABC)
PartRfc822   == Part("message/rfc822", "", EmptyStr, EmptyStr, BodyText)
PartFwdNote  == Part(CTypeForwarded, "", EmptyStr, EmptyStr, B64ABC)
PartZipNamed == NamedPart("application/zip", <<"z">>, EncBase64, B64ABC)
PartNested   == NestedPart(<<PartHtmlB64, PartPng>>, TRUE)
PartNestedOpen == NestedPart(<<PartPlain>>, FALSE)

PartLists == { <<>>, <<PartPlain>>, <<PartPlain, PartHtmlB64>>, <<PartPlain, PartPdfBad>>,
               <<PartPng, PartPlain>>, <<PartPlain, PartTestTxt>>, <<PartPlain, PartUnnamed>>,
               <<PartAppText, PartRfc822>>, <<PartFwdNote, PartZipNamed>>,
               <<PartPlain, PartNested>>, <<PartNestedOpen>> }

RawMessages ==
    { Msg(h, f, t, j, d, ct, cte, b) :
        h \in {"ok", "bad"}, f \in {EmptyStr, AddrB, WordTest, WordKoi}, t \in {EmptyStr, AddrO},
        j \in {SubjHi, WordTest, WordBadB64}, d \in {"absent", "ok", "bad"},
        ct \in {"absent", "text/plain", "text/html", "invalid"}, cte \in Encodings, b \in Bodies }
    \cup
    { MultipartMsg(h, f, t, j, d, ct, ps, cl) :
        h \in {"ok", "bad"}, f \in {EmptyStr, AddrB, WordTest, WordKoi}, t \in {EmptyStr, AddrO},
        j \in {SubjHi, WordTest, WordBadB64}, d \in {"absent", "ok", "bad"},
        ct \in {"multipart", "multipart-noboundary"}, ps \in PartLists, cl \in BOOLEAN }

InitParse ==
    /\ config = [tls |-> FALSE, routes |-> <<>>]
    /\ open = FALSE
    /\ helo = EmptyStr
    /\ mailFrom = AddrS
    /\ rcptTo \in {<<AddrC>>, <<AddrC, AddrO>>}
    /\ tlsEnabled = FALSE
    /\ conn = PlainConn
    /\ \E m \in RawMessages : lastCmd = Cmd("CONNECT", EmptyStr, m, "ok")
    /\ replies = <<>>
    /\ parsed = NoEmail
    /\ fired = <<>>
    /\ attempted = <<>>
    /\ script = 0
    /\ transcript = <<>>
    /\ Alone

ApplyParse ==
    /\ lastCmd.verb = "CONNECT"
    /\ parsed' = ParseEmail(lastCmd.msg, mailFrom, rcptTo)
    /\ lastCmd' = [lastCmd EXCEPT !.verb = "PARSE"]
    /\ UNCHANGED <<config, open, helo, mailFrom, rcptTo, tlsEnabled, conn, replies, fired, attempted,
                   script, transcript, dataPc, outside>>

NextParse == ApplyParse

SpecParse == InitParse /\ [][NextParse]_vars

----------------------------------------------------------------------------
(* Parser properties *)

Parsed == lastCmd.verb = "PARSE" /\ parsed.called

\* C18: ParseEmail fails only on an unparseable header block or on a multipart type
\* without a boundary; every other anomaly gives an Email.
C18_OnlyTwoHardFailures ==
    (Parsed /\ parsed.err) =>
        (lastCmd.msg.hdr = "bad" \/ lastCmd.msg.ctype = "multipart-noboundary")

RECURSIVE QPReference(_)
\* quoted-printable decoding (RFC 2045 6.7): "=XX" is the octet, "=" before a line end
\* is a soft line break and goes away with the line end
QPReference(s) ==
    IF s = <<>> THEN <<>>
    ELSE IF s[1] = "=" /\ Len(s) >= 3 /\ s[2] = CR /\ s[3] = LF
         THEN QPReference(SubSeq(s, 4, Len(s)))
    ELSE IF s[1] = "=" /\ Len(s) >= 3 /\ HexVal(s[2]) >= 0 /\ HexVal(s[3]) >= 0
         THEN <<Chr(HexVal(s[2]) * 16 + HexVal(s[3]))>> \o QPReference(SubSeq(s, 4, Len(s)))
    ELSE <<s[1]>> \o QPReference(Tail(s))

\* the body of a message that is not multipart, where ParseEmail puts it
Content(e, ct) == IF ct = "text/html" THEN e.htmlBody ELSE e.body

\* C19: the transfer decoder gives the base64-decoded octets for base64, the
\* quoted-printable-decoded octets for quoted-printable, and the content unchanged and
\* without error for every other encoding name, names compared without regard to case.
C19_TransferDecoding ==
    LET m   == lastCmd.msg
        enc == ToLower(TrimSpace(m.cte))
    IN  (Parsed /\ m.hdr = "ok" /\ m.ctype \in {"absent", "text/plain", "text/html"}) =>
            IF enc = EncBase64
            THEN ~B64Decode(m.body).err =>
                     (~parsed.err /\ Content(parsed.email, m.ctype) = B64Decode(m.body).out)
            ELSE IF enc = EncQP
            THEN ~parsed.err /\ Content(parsed.email, m.ctype) = QPReference(m.body)
            ELSE ~parsed.err /\ Content(parsed.email, m.ctype) = m.body

\* C20: from is the decoded From header when present and the envelope sender otherwise;
\* to comes from the To header when present and is the envelope recipients otherwise.
C20_EnvelopeOnlyFallback ==
    (Parsed /\ ~parsed.err) =>
        /\ parsed.email.from = IF lastCmd.msg.fromHdr # EmptyStr
                               THEN DecodeMIMEHeader(lastCmd.msg.fromHdr) ELSE mailFrom
        /\ parsed.email.to = IF lastCmd.msg.toHdr # EmptyStr
                             THEN <<lastCmd.msg.toHdr>> ELSE rcptTo

RECURSIVE Leaves(_)
\* the parts of a multipart body in order, a nested multipart body replaced by its parts
Leaves(parts) ==
    IF parts = <<>> THEN <<>>
    ELSE IF Head(parts).parts # <<>> THEN Leaves(Head(parts).parts) \o Leaves(Tail(parts))
    ELSE <<Head(parts)>> \o Leaves(Tail(parts))

\* the four cases in which the rule makes a part an attachment
RuleAttachment(p) ==
    \/ p.disp = "attachment" /\ p.filename # EmptyStr
    \/ /\ HasMediaPrefix(MediaType(p.ctype), "application/")
       /\ ~HasMediaPrefix(MediaType(p.ctype), "application/text")
    \/ HasMediaPrefix(MediaType(p.ctype), "image/")
    \/ MediaType(p.ctype) = "message/rfc822"

\* the decoded content of the last part of the given media type that the rule does
\* not make an attachment, "" when there is none
RuleText(ps, mediaType) ==
    LET at == {k \in 1..Len(ps) : ~RuleAttachment(ps[k]) /\ MediaType(ps[k].ctype) = mediaType}
    IN  IF at = {} THEN EmptyStr
        ELSE LET k == CHOOSE i \in at : \A j \in at : j <= i
             IN  DecodeContent(ps[k].data, ps[k].cte).out

\* C21: in a multipart message a part becomes an attachment if and only if it has
\* Content-Disposition attachment with a filename, or an application/ type other than
\* application/text, or an image/ type, or the type message/rfc822; every other text/plain
\* part sets body and every other text/html part sets htmlBody.  One text/plain part plus
\* one part with disposition attachment and filename test.txt gives exactly one
\* attachment, named test.txt, and a non-empty body.
C21_AttachmentRule ==
    LET ps == Leaves(lastCmd.msg.parts)
        e  == parsed.email
    IN  (Parsed /\ ~parsed.err /\ lastCmd.msg.ctype = "multipart") =>
            /\ Len(e.attachments) = Cardinality({k \in 1..Len(ps) : RuleAttachment(ps[k])})
            /\ e.body = RuleText(ps, "text/plain")
            /\ e.htmlBody = RuleText(ps, "text/html")
            /\ lastCmd.msg.parts = <<PartPlain, PartTestTxt>> =>
                   /\ Len(e.attachments) = 1
                   /\ e.attachments[1].filename = NameTest
                   /\ e.body # EmptyStr

----------------------------------------------------------------------------
(* The DATA phase byte by byte: the client dot-stuffs the message and sends  *)
(* the terminator line, handleData reads the connection line by line.       *)

MaxLineLen == 2     \* characters of a message line before its line feed
MaxLines   == 2     \* lines of a message

\* the lines a message is made of: dots, text, carriage returns, ended by a line feed
\* (a CRLF line ends in CR LF, a line may also end in a bare LF)
Lines ==
    { body \o <<LF>> :
        body \in UNION { [1..n -> {".", "a", CR}] : n \in 0..MaxLineLen } }

RECURSIVE Join(_)
Join(ls) == IF ls = <<>> THEN <<>> ELSE Head(ls) \o Join(Tail(ls))

Terminator == <<".", CR, LF>>

\* the client's transparency procedure (RFC 5321 4.5.2): a line that begins with a dot
\* gets one more dot in front
DotStuff(ls) == [k \in 1..Len(ls) |-> IF ls[k][1] = "." THEN <<".">> \o ls[k] ELSE ls[k]]

\* a line with every leading dot removed, not only the first
StripDot_AllDots(line) ==
    LET dots == { i \in 1..Len(line) : \A j \in 1..i : line[j] = "." }
    IN  SubSeq(line, Cardinality(dots) + 1, Len(line))

\* handleData: "if len(line) > 0 && line[0] == '.' { line = line[1:] }"
StripDot(line) == IF Len(line) > 0 /\ line[1] = "." THEN Tail(line) ELSE line

\* Email.ToEML
ToEML(email) == email.raw

InitData ==
    /\ config = [tls |-> FALSE, routes |-> <<>>]
    /\ open = TRUE
    /\ helo = Dom
    /\ mailFrom = AddrS
    /\ rcptTo = <<AddrC>>
    /\ tlsEnabled = FALSE
    /\ conn = PlainConn
    /\ lastCmd = Cmd("DATA", EmptyStr, NoMsg, "ok")
    /\ replies = <<354>>
    /\ parsed = NoEmail
    /\ fired = <<>>
    /\ attempted = <<>>
    /\ script = -1
    /\ transcript = <<>>
    /\ \E ls \in UNION { [1..n -> Lines] : n \in 0..MaxLines }, complete \in BOOLEAN :
         /\ submitted = Join(ls)
         /\ wire = Join(DotStuff(ls)) \o (IF complete THEN Terminator ELSE <<>>)
    /\ data = <<>>
    /\ dataPc = "reading"
    /\ server = NoServer
    /\ pc = NoPc
    /\ conns = <<>>
    /\ timer = FALSE
    /\ stored = NoStored
    /\ hook = NoHook
    /\ other = NoSession

\* one turn of handleData's loop: ReadBytes('\n'), the terminator test, the leading dot
ReadDataLine ==
    /\ dataPc = "reading"
    /\ LET i == IndexFrom(wire, <<LF>>, 1) IN
       IF i = 0
       THEN /\ dataPc' = "eof"
            /\ open' = FALSE
            /\ wire' = <<>>
            /\ UNCHANGED data
       ELSE LET line == SubSeq(wire, 1, i) IN
            /\ wire' = SubSeq(wire, i + 1, Len(wire))
            /\ IF Len(line) >= 3 /\ line[1] = "." /\ line[2] = CR /\ line[3] = LF
               THEN dataPc' = "done" /\ UNCHANGED data
               ELSE dataPc' = "reading" /\ data' = data \o StripDot(line)
            /\ UNCHANGED open
    /\ UNCHANGED <<config, helo, mailFrom, rcptTo, tlsEnabled, conn, lastCmd, replies, parsed, fired,
                   attempted, script, transcript, submitted, server, pc, conns, timer, stored, hook,
                   other>>

NextData == ReadDataLine

SpecData == InitData /\ [][NextData]_vars

\* the lines of a byte string, each up to and including its line feed
RECURSIVE SplitLines(_)
SplitLines(s) ==
    IF s = <<>> THEN <<>>
    ELSE LET i == IndexFrom(s, <<LF>>, 1) IN
         IF i = 0 THEN <<s>>
         ELSE <<SubSeq(s, 1, i)>> \o SplitLines(SubSeq(s, i + 1, Len(s)))

HasBareDotLine(s) == \E k \in 1..Len(SplitLines(s)) : SplitLines(s)[k] = Terminator

\* C12: for a message without a bare-dot line, dot-stuffing on the wire, reception up to
\* the terminator line and ToEML give back the submitted bytes, nothing altered.
C12_RoundTrip ==
    (dataPc = "done" /\ ~HasBareDotLine(submitted)) => ToEML([raw |-> data]) = submitted

\* a message with a line that begins with a dot, a CRLF line end and a bare LF was received
C12_Witness ==
    /\ dataPc = "done"
    /\ ~HasBareDotLine(submitted)
    /\ \E k \in 1..Len(SplitLines(submitted)) : SplitLines(submitted)[k][1] = "."
    /\ \E i \in 1..(Len(submitted) - 1) : submitted[i] = CR /\ submitted[i + 1] = LF
    /\ \E i \in 1..(Len(submitted) - 1) : submitted[i] # CR /\ submitted[i + 1] = LF
    /\ ToEML([raw |-> data]) = submitted

----------------------------------------------------------------------------
(* Server.Start, the accept loops and Server.Stop.  A session is a          *)
(* connection in state "session"; what it does between its start and its    *)
(* end is the session machine above.                                        *)

Ports == <<25, 587>>      \* config.Server.Ports

MaxConns == 1             \* client connections

ConnIds == 1..MaxConns

NoConn == [state |-> "away", port |-> 0, late |-> FALSE, early |-> FALSE, atStop |-> FALSE]

InitServer ==
    /\ config = [tls |-> FALSE, routes |-> <<>>]
    /\ open = FALSE
    /\ helo = EmptyStr
    /\ mailFrom = EmptyStr
    /\ rcptTo = <<>>
    /\ tlsEnabled = FALSE
    /\ conn = PlainConn
    /\ lastCmd = Cmd("CONNECT", EmptyStr, NoMsg, "ok")
    /\ replies = <<>>
    /\ parsed = NoEmail
    /\ fired = <<>>
    /\ attempted = <<>>
    /\ script = -1
    /\ transcript = <<>>
    /\ submitted = <<>>
    /\ wire = <<>>
    /\ data = <<>>
    /\ dataPc = "idle"
    /\ server = NoServer
    /\ pc = [NoPc EXCEPT !.start = "binding"]
    /\ conns = [c \in ConnIds |-> NoConn]
    /\ timer = FALSE
    /\ stored = NoStored
    /\ hook = NoHook
    /\ other = NoSession

ServerOnly == UNCHANGED <<stored, hook, config, open, helo, mailFrom, rcptTo, tlsEnabled, conn, lastCmd, replies,
                          parsed, fired, attempted, script, transcript, submitted, wire, data,
                          dataPc, other>>

\* the bookkeeping at the call of Stop: the sessions in flight, and whether an accept
\* loop is blocked in Accept (its listener open, nothing to accept)
CallStop(p) ==
    [p EXCEPT !.stop = "called",
              !.blocked = \E k \in 1..Len(p.loops) :
                              /\ p.loops[k].at = "accept"
                              /\ server.listeners[k].open
                              /\ \A c \in ConnIds : ~(conns[c].state = "backlog" /\ conns[c].port = k)]

InFlightAtStop ==
    [c \in ConnIds |-> [conns[c] EXCEPT !.atStop = (conns[c].state = "session")]]

\* Server.Start, one turn of the loop over the ports: startListener, then on success the
\* listener is appended and its accept loop started, on failure Stop is called
StartBind ==
    /\ pc.start = "binding"
    /\ pc.next <= Len(Ports)
    /\ \E bound \in BOOLEAN :
         IF bound
         THEN /\ server' = [server EXCEPT !.listeners = Append(@, [port |-> Ports[pc.next], open |-> TRUE]),
                                          !.wg = @ + 1]
              /\ pc' = [pc EXCEPT !.next = @ + 1,
                                  !.loops = Append(@, [at |-> "select", conn |-> 0]),
                                  !.start = IF pc.next = Len(Ports) THEN "ok" ELSE "binding"]
              /\ UNCHANGED conns
         ELSE /\ pc' = [CallStop(pc) EXCEPT !.start = "stopping"]
              /\ conns' = InFlightAtStop
              /\ UNCHANGED server
    /\ UNCHANGED timer
    /\ ServerOnly

\* main: the signal arrives after Start returned nil, Stop is called
SignalStop ==
    /\ pc.start = "ok"
    /\ pc.stop = "none"
    /\ pc' = CallStop(pc)
    /\ conns' = InFlightAtStop
    /\ UNCHANGED <<server, timer>>
    /\ ServerOnly

\* Server.Stop: close(s.shutdown)
StopCloseShutdown ==
    /\ pc.stop = "called"
    /\ server' = [server EXCEPT !.shutdown = TRUE]
    /\ pc' = [pc EXCEPT !.stop = "closing", !.k = 1]
    /\ UNCHANGED <<conns, timer>>
    /\ ServerOnly

\* Server.Stop's loop over the listeners with the Close call lost
StopCloseListener_KeepsOpen ==
    /\ pc.stop = "closing"
    /\ pc.k <= Len(server.listeners)
    /\ pc' = [pc EXCEPT !.k = @ + 1]
    /\ UNCHANGED <<server, conns, timer>>
    /\ ServerOnly

\* Server.Stop: listener.Close() for the next listener; connections waiting in its
\* backlog are refused
StopCloseListener ==
    /\ pc.stop = "closing"
    /\ pc.k <= Len(server.listeners)
    /\ server' = [server EXCEPT !.listeners[pc.k].open = FALSE]
    /\ conns' = [c \in ConnIds |->
                    IF conns[c].state = "backlog" /\ conns[c].port = pc.k
                    THEN [conns[c] EXCEPT !.state = "refused"] ELSE conns[c]]
    /\ pc' = [pc EXCEPT !.k = @ + 1]
    /\ UNCHANGED timer
    /\ ServerOnly

\* Server.Stop: the goroutine around wg.Wait is started, Stop reaches its select
StopWait ==
    /\ pc.stop = "closing"
    /\ pc.k > Len(server.listeners)
    /\ pc' = [pc EXCEPT !.stop = "waiting"]
    /\ UNCHANGED <<server, conns, timer>>
    /\ ServerOnly

\* Server.Stop's goroutine: wg.Wait returns, close(done)
WaitDone ==
    /\ pc.stop = "waiting"
    /\ ~pc.done
    /\ server.wg = 0
    /\ pc' = [pc EXCEPT !.done = TRUE]
    /\ UNCHANGED <<server, conns, timer>>
    /\ ServerOnly

\* time.After(30 * time.Second) fires
GraceElapses ==
    /\ pc.stop = "waiting"
    /\ ~timer
    /\ timer' = TRUE
    /\ UNCHANGED <<server, pc, conns>>
    /\ ServerOnly

\* Server.Stop's select: done is closed or the timer fired; Stop returns, and Start with
\* it (with the error) when Start had called it
StopReturn ==
    /\ pc.stop = "waiting"
    /\ \E by \in {"done", "timeout"} :
         /\ by = "done" => pc.done
         /\ by = "timeout" => timer
         /\ pc' = [pc EXCEPT !.stop = "returned", !.by = by,
                             !.start = IF pc.start = "stopping" THEN "failed" ELSE @]
    /\ UNCHANGED <<server, conns, timer>>
    /\ ServerOnly

\* nothing of the server runs any more: the accept loops have returned and no connection
\* is with a session or on its way to one
Quiescent ==
    /\ \A k \in 1..Len(pc.loops) : pc.loops[k].at = "returned"
    /\ \A c \in ConnIds : conns[c].state \in {"away", "refused", "finished"}

\* the caller calls Stop once more after the first call has returned (after a Start that
\* failed and called Stop itself, or after the shutdown): close(s.shutdown) on the closed
\* channel is a run-time panic, on an open one the call would go on and return
StopAgain ==
    /\ pc.stop = "returned"
    /\ pc.again = "none"
    /\ Quiescent
    /\ pc' = [pc EXCEPT !.again = IF server.shutdown THEN "panic" ELSE "returned"]
    /\ UNCHANGED <<server, conns, timer>>
    /\ ServerOnly

\* Server.handleListener: the outer select
LoopSelect(k) ==
    /\ k \in 1..Len(pc.loops)
    /\ pc.loops[k].at = "select"
    /\ IF server.shutdown
       THEN /\ pc' = [pc EXCEPT !.loops[k].at = "returned"]
            /\ server' = [server EXCEPT !.wg = @ - 1]
       ELSE /\ pc' = [pc EXCEPT !.loops[k].at = "accept"]
            /\ UNCHANGED server
    /\ UNCHANGED <<conns, timer>>
    /\ ServerOnly

\* Server.handleListener: listener.Accept returns a connection
AcceptConn(k) ==
    /\ k \in 1..Len(pc.loops)
    /\ pc.loops[k].at = "accept"
    /\ server.listeners[k].open
    /\ \E c \in ConnIds :
         /\ conns[c].state = "backlog"
         /\ conns[c].port = k
         /\ conns' = [conns EXCEPT ![c].state = "accepted",
                                   ![c].early = (pc.start = "binding")]
         /\ pc' = [pc EXCEPT !.loops[k] = [at |-> "spawn", conn |-> c]]
    /\ UNCHANGED <<server, timer>>
    /\ ServerOnly

\* the inner select of handleListener after Accept returned an error
AfterAcceptError(k) ==
    IF server.shutdown
    THEN /\ pc' = [pc EXCEPT !.loops[k].at = "returned"]
         /\ server' = [server EXCEPT !.wg = @ - 1]
    ELSE /\ pc' = [pc EXCEPT !.loops[k].at = "select"]
         /\ UNCHANGED server

\* Server.handleListener: listener.Accept fails because the listener is closed
AcceptClosed(k) ==
    /\ k \in 1..Len(pc.loops)
    /\ pc.loops[k].at = "accept"
    /\ ~server.listeners[k].open
    /\ AfterAcceptError(k)
    /\ UNCHANGED <<conns, timer>>
    /\ ServerOnly

\* Server.handleListener: listener.Accept fails on an open listener (a passing error)
AcceptFails(k) ==
    /\ k \in 1..Len(pc.loops)
    /\ pc.loops[k].at = "accept"
    /\ server.listeners[k].open
    /\ AfterAcceptError(k)
    /\ UNCHANGED <<conns, timer>>
    /\ ServerOnly

\* Server.handleListener: go s.handleConnection(conn, port); the WaitGroup is not touched
LoopSpawn(k) ==
    /\ k \in 1..Len(pc.loops)
    /\ pc.loops[k].at = "spawn"
    /\ conns' = [conns EXCEPT ![pc.loops[k].conn].state = "session"]
    /\ pc' = [pc EXCEPT !.loops[k] = [at |-> "select", conn |-> 0]]
    /\ UNCHANGED <<server, timer>>
    /\ ServerOnly

\* Server.handleConnection returns: the client quit or the connection broke
SessionEnds(c) ==
    /\ conns[c].state = "session"
    /\ conns' = [conns EXCEPT ![c].state = "finished"]
    /\ UNCHANGED <<server, pc, timer>>
    /\ ServerOnly

\* a client connects to the port of a listener: queued while the listener is open,
\* refused once it is closed
Arrive(c, k) ==
    /\ conns[c].state = "away"
    /\ k \in 1..Len(server.listeners)
    /\ conns' = [conns EXCEPT ![c] = IF server.listeners[k].open
                                     THEN [@ EXCEPT !.state = "backlog", !.port = k]
                                     ELSE [@ EXCEPT !.state = "refused", !.port = k, !.late = TRUE]]
    /\ UNCHANGED <<server, pc, timer>>
    /\ ServerOnly

PortIds == 1..Len(Ports)

NextServer ==
    \/ StartBind
    \/ SignalStop
    \/ StopCloseShutdown
    \/ StopCloseListener
    \/ StopWait
    \/ WaitDone
    \/ GraceElapses
    \/ StopReturn
    \/ StopAgain
    \/ \E k \in PortIds : LoopSelect(k)
    \/ \E k \in PortIds : AcceptConn(k)
    \/ \E k \in PortIds : AcceptClosed(k)
    \/ \E k \in PortIds : AcceptFails(k)
    \/ \E k \in PortIds : LoopSpawn(k)
    \/ \E c \in ConnIds : SessionEnds(c)
    \/ \E c \in ConnIds, k \in PortIds : Arrive(c, k)

SpecServer == InitServer /\ [][NextServer]_vars

\* the goroutines run when they can: Stop and its waiting goroutine go on, the timer
\* fires, an accept loop takes its next step unless it is blocked in Accept
FairServer ==
    /\ WF_vars(StopCloseShutdown)
    /\ WF_vars(StopCloseListener)
    /\ WF_vars(StopWait)
    /\ WF_vars(WaitDone)
    /\ WF_vars(GraceElapses)
    /\ WF_vars(StopReturn)
    /\ \A k \in PortIds :
         /\ WF_vars(LoopSelect(k))
         /\ WF_vars(AcceptConn(k))
         /\ WF_vars(AcceptClosed(k))
         /\ WF_vars(LoopSpawn(k))

SpecServerFair == SpecServer /\ FairServer

----------------------------------------------------------------------------
(* Server properties *)

StopReturned == pc.stop = "returned"

\* C13: Stop does not return before a session that was in flight at its call has
\* finished, unless the grace period elapsed first.
C13_StopWaitsForSessions ==
    (StopReturned /\ ~timer) =>
        \A c \in ConnIds : conns[c].atStop => conns[c].state = "finished"

AllClosed == \A k \in 1..Len(server.listeners) : ~server.listeners[k].open

AllLoopsReturned == \A k \in 1..Len(pc.loops) : pc.loops[k].at = "returned"

NoLateSession == \A c \in ConnIds : conns[c].late => conns[c].state = "refused"

\* C14: after Stop is called every listener is closed, every accept loop terminates and
\* Stop returns; a connection that arrives after the sockets were closed gets no session.
C14_StopTerminates ==
    /\ [](NoLateSession)
    /\ (pc.stop # "none") ~> (StopReturned /\ AllClosed /\ AllLoopsReturned)

\* Stop was called while an accept loop was blocked in Accept, everything ended, and a
\* connection that came after the close was refused
C14_Witness ==
    /\ StopReturned
    /\ pc.blocked
    /\ Len(server.listeners) = Len(Ports)
    /\ AllClosed
    /\ AllLoopsReturned
    /\ \E c \in ConnIds : conns[c].late /\ conns[c].state = "refused"

\* C40: Stop can be called more than once on the same Server (for instance by the caller
\* after Start has failed and has already invoked Stop internally, or a second time during
\* shutdown) and every call completes normally without crashing the process.
C40_StopIsRepeatable == pc.again # "panic"

\* C15: when binding a port fails, Start returns an error with every listener opened so
\* far closed, and no connection was accepted before the failure.
C15_NoAcceptBeforeAllBound ==
    /\ pc.start = "failed" => AllClosed
    /\ \A c \in ConnIds : ~conns[c].early

----------------------------------------------------------------------------
(* Two sessions, each run by its own handleConnection goroutine.  Between   *)
(* two commands a goroutine is blocked reading a command line, inside DATA  *)
(* it is blocked reading the message.  The session variables hold the       *)
(* session whose goroutine runs, other the session whose goroutine waits.   *)

\* the Session of the running goroutine, put aside while it is blocked in a read
Park(at) ==
    [at |-> at, open |-> open, helo |-> helo, mailFrom |-> mailFrom, rcptTo |-> rcptTo,
     tlsEnabled |-> tlsEnabled, conn |-> conn, replies |-> replies]

\* the goroutine of session ses runs on
Resume(ses) ==
    /\ open' = ses.open
    /\ helo' = ses.helo
    /\ mailFrom' = ses.mailFrom
    /\ rcptTo' = ses.rcptTo
    /\ tlsEnabled' = ses.tlsEnabled
    /\ conn' = ses.conn
    /\ replies' = ses.replies
    /\ lastCmd' = Cmd("SWITCH", EmptyStr, NoMsg, "ok")
    /\ NoDispatch
    /\ script' = -1
    /\ transcript' = <<>>
    /\ UNCHANGED <<config, submitted, wire, data, server, pc, conns, timer, stored, hook>>

\* one rule for every recipient, storing locally
RoutesStoreAll == << Route("all", TRUE, Cond(PatAll, EmptyStr, EmptyStr), <<StoreLocalAct>>) >>

InitPair ==
    /\ config = [tls |-> TRUE, routes |-> RoutesStoreAll]
    /\ open = TRUE
    /\ helo = EmptyStr
    /\ mailFrom = EmptyStr
    /\ rcptTo = <<>>
    /\ tlsEnabled = FALSE
    /\ conn = PlainConn
    /\ lastCmd = Cmd("CONNECT", EmptyStr, NoMsg, "ok")
    /\ replies = <<220>>
    /\ parsed = NoEmail
    /\ fired = <<>>
    /\ attempted = <<>>
    /\ script = -1
    /\ transcript = <<>>
    /\ submitted = <<>>
    /\ wire = <<>>
    /\ data = <<>>
    /\ dataPc = "idle"
    /\ server = NoServer
    /\ pc = NoPc
    /\ conns = <<>>
    /\ timer = FALSE
    /\ stored = NoStored
    /\ hook = NoHook
    /\ other = [at |-> "command", open |-> TRUE, helo |-> EmptyStr, mailFrom |-> EmptyStr,
                rcptTo |-> <<>>, tlsEnabled |-> FALSE, conn |-> PlainConn,
                replies |-> <<220>>]

\* the running session handles one command line; the exploration stops at MaxRcpt
\* recipients over both sessions, both clients connect to port 25, and neither sends a
\* line before it has the reply to its last one
Command ==
    /\ dataPc = "idle"
    /\ Next
    /\ Len(rcptTo') + Len(other.rcptTo) <= MaxRcpt
    /\ conn'.port = 25
    /\ conn'.buffered = <<>>
    /\ conn'.dropped = 0

\* the sessions trade places with the envelope left behind, as if mailFrom and rcptTo
\* belonged to the Server and not to the Session
Switch_SharedEnvelope ==
    /\ dataPc = "idle"
    /\ other.at = "command"
    /\ Resume([other EXCEPT !.mailFrom = mailFrom, !.rcptTo = rcptTo])
    /\ other' = Park("command")
    /\ UNCHANGED dataPc

\* the running session waits for its next command line, the other one gets its line
Switch ==
    /\ dataPc = "idle"
    /\ other.at = "command"
    /\ Resume(other)
    /\ other' = Park("command")
    /\ UNCHANGED dataPc

\* the running session gets DATA with recipients, replies 354 and waits for the message;
\* the other one gets its command line
BlockInData ==
    /\ dataPc = "idle"
    /\ open
    /\ rcptTo # <<>>
    /\ other.at = "command"
    /\ Resume(other)
    /\ other' = [Park("data") EXCEPT !.replies = <<354>>]
    /\ UNCHANGED dataPc

\* the message of the session waiting inside DATA arrives (or its connection breaks)
ResumeData ==
    /\ dataPc = "idle"
    /\ other.at = "data"
    /\ Resume(other)
    /\ other' = Park("command")
    /\ dataPc' = "reading"

\* Session.handleData after the wait: the rest of the read loop, ProcessEmail, the reply
HandleDataRest ==
    /\ dataPc = "reading"
    /\ ReceiveData
    /\ UNCHANGED <<config, helo, tlsEnabled>>

NextPair ==
    \/ Command
    \/ Switch
    \/ BlockInData
    \/ ResumeData
    \/ HandleDataRest

SpecPair == InitPair /\ [][NextPair]_vars

----------------------------------------------------------------------------
(* Properties of two sessions *)

Mine == [open |-> open, helo |-> helo, mailFrom |-> mailFrom, rcptTo |-> rcptTo,
         tlsEnabled |-> tlsEnabled, conn |-> conn, replies |-> replies]

Theirs == [open |-> other.open, helo |-> other.helo, mailFrom |-> other.mailFrom,
           rcptTo |-> other.rcptTo, tlsEnabled |-> other.tlsEnabled, conn |-> other.conn,
           replies |-> other.replies]

\* a step is one session at work with the waiting one untouched, or the two goroutines
\* taking turns with both sessions as they were (the 354 of DATA apart)
OwnStateOnly ==
    \/ Theirs' = Theirs /\ other'.at = other.at
    \/ Theirs' = Mine /\ Mine' = Theirs
    \/ Theirs' = [Mine EXCEPT !.replies = <<354>>] /\ Mine' = Theirs /\ other'.at = "data"

\* whatever the waiting session is blocked in, and also when it has failed, the running
\* one can be served every command, and a message that arrives can be taken
NeverHeldUp ==
    /\ (dataPc = "idle" /\ open) =>
           /\ ENABLED HandleHelo
           /\ ENABLED HandleMail
           /\ ENABLED HandleData
           /\ ENABLED HandleRset
           /\ ENABLED HandleQuit
    /\ (dataPc = "idle" /\ other.at = "command") => ENABLED Switch
    /\ (dataPc = "idle" /\ other.at = "data") => ENABLED ResumeData
    /\ dataPc = "reading" => ENABLED HandleDataRest

\* C16: in any interleaving of two sessions, the envelope state and the replies of a
\* session change only by its own commands, and a session that failed or is blocked
\* waiting for a command line or for the DATA terminator never holds up the other one.
C16_SessionsIndependent == [](NeverHeldUp) /\ [][OwnStateOnly]_vars

\* one session waits inside DATA with its envelope intact while the other one completes
\* a transaction; the other case: the waiting session has failed
C16_Witness ==
    /\ other.at = "data"
    /\ other.rcptTo # <<>>
    /\ lastCmd.verb = "DATA"
    /\ replies = <<354, 250>>
    /\ rcptTo = <<>>

----------------------------------------------------------------------------
(* The store and webhook actions: the paths generateUniqueID and              *)
(* generateFilename give, and what the sinks hold after some messages.       *)

MaxMessages == 2     \* messages handed to the processor

Slash == <<"/">>

\* fmt.Sprintf("%s/%s", a, b)
PathOf(a, b) == a \o Slash \o b

\* s[:n] when len(s) > n, else s
Truncate(s, n) == IF Len(s) > n THEN SubSeq(s, 1, n) ELSE s

\* fmt.Sprintf("%x") of one byte, for the characters of the Message-IDs used
HexOf(c) ==
    CASE c = "<" -> <<"3", "c">> [] c = ">" -> <<"3", "e">> [] c = "@" -> <<"4", "0">>
      [] c = "/" -> <<"2", "f">> [] c = "1" -> <<"3", "1">> [] c = "2" -> <<"3", "2">>
      [] c = "a" -> <<"6", "1">> [] c = "b" -> <<"6", "2">> [] c = "c" -> <<"6", "3">>
      [] c = "x" -> <<"7", "8">> [] c = "y" -> <<"7", "9">> [] c = "z" -> <<"7", "a">>
      [] OTHER -> <<"0", "0">>

RECURSIVE HexString(_)
\* fmt.Sprintf("%x", []byte(s))
HexString(s) == IF s = <<>> THEN <<>> ELSE HexOf(Head(s)) \o HexString(Tail(s))

\* time.Time.Format for the four layouts the processor uses; a time is
\* [year, month, day, clock, micro] in digits
Format(t, layout) ==
    CASE layout = "2006" -> t.year
      [] layout = "01" -> t.month
      [] layout = "20060102_150405" -> t.year \o t.month \o t.day \o <<"_">> \o t.clock
      [] layout = "20060102_150405.000000" ->
             t.year \o t.month \o t.day \o <<"_">> \o t.clock \o <<".">> \o t.micro

\* generateUniqueID: the timestamp with microseconds and the first eight hex digits of
\* the Message-ID's bytes, or the timestamp alone when there is no Message-ID
GenerateUniqueID(email) ==
    IF email.messageID # EmptyStr
    THEN Format(email.date, "20060102_150405.000000") \o <<"_">>
         \o Truncate(HexString(email.messageID), 8)
    ELSE Format(email.date, "20060102_150405.000000")

\* the strings.ReplaceAll calls of generateFilename on one character
CleanChar(c) ==
    CASE c \in {"<", ">"} -> <<>>
      [] c = "@" -> <<"_", "a", "t", "_">>
      [] c \in {"/", "\\"} -> <<"_">>
      [] OTHER -> <<c>>

RECURSIVE CleanID(_)
CleanID(s) == IF s = <<>> THEN <<>> ELSE CleanChar(Head(s)) \o CleanID(Tail(s))

NoID == <<"n", "o", "-", "i", "d">>

\* generateFilename without its extension
BaseFilename(email) ==
    Format(email.date, "20060102_150405") \o <<"_">>
    \o Truncate(CleanID(IF email.messageID = EmptyStr THEN NoID ELSE email.messageID), 50)

\* generateFilename
GenerateFilename(email) == BaseFilename(email) \o <<".", "e", "m", "l">>

DefaultFolder == <<"d", "e", "f", "a", "u", "l", "t">>

\* action.Config["folder"], "" when the action has no such entry
ConfigFolder(action) == IF "folder" \in DOMAIN action THEN action.folder ELSE EmptyStr

\* the folder of a store action: Config["folder"], "default" when empty
FolderOf(action) ==
    IF ConfigFolder(action) = EmptyStr THEN DefaultFolder ELSE ConfigFolder(action)

\* folder/year/month/uniqueID
FolderPath(folder, email) ==
    PathOf(PathOf(PathOf(folder, Format(email.date, "2006")), Format(email.date, "01")),
           GenerateUniqueID(email))

\* the place of the j-th slash of a path; 0 before the first and Len + 1 after the last
SlashAt(s, j) ==
    IF j = 0 THEN 0
    ELSE IF j > Cardinality({i \in 1..Len(s) : s[i] = "/"}) THEN Len(s) + 1
    ELSE CHOOSE i \in 1..Len(s) :
             s[i] = "/" /\ Cardinality({x \in 1..i : s[x] = "/"}) = j

\* the segments of a path between its slashes; cur is the segment being read
Split(s, cur) ==
    [j \in 1..(Cardinality({i \in 1..Len(s) : s[i] = "/"}) + 1) |->
        (IF j = 1 THEN cur ELSE <<>>)
        \o SubSeq(s, SlashAt(s, j - 1) + 1, SlashAt(s, j) - 1)]

RECURSIVE CleanSegments(_, _)
\* filepath.Clean on the segments of a relative path: "" and "." go away, ".." takes
\* the segment before it away
CleanSegments(segs, done) ==
    IF segs = <<>> THEN done
    ELSE IF Head(segs) \in {<<>>, <<".">>} THEN CleanSegments(Tail(segs), done)
    ELSE IF Head(segs) = <<".", ".">> /\ done # <<>> /\ done[Len(done)] # <<".", ".">>
         THEN CleanSegments(Tail(segs), SubSeq(done, 1, Len(done) - 1))
    ELSE CleanSegments(Tail(segs), Append(done, Head(segs)))

Directory == <<"d", "i", "r">>     \* config.Storage.Local.Directory

\* where an object lands, as path segments: StoreLocal writes the file
\* filepath.Join(Directory, path), StoreS3 puts the object named path (no PathPrefix)
KeyOf(sink, path) ==
    IF sink = "local" THEN CleanSegments(Split(PathOf(Directory, path), <<>>), <<>>)
    ELSE Split(path, <<>>)

\* StoreLocal / StoreS3WithOptions succeed: the sink is enabled in the configuration and
\* its write goes through (up: the sinks that work while this message is handled)
SinkWorks(sink, cfg, up) == sink \in cfg.storage /\ sink \in up

\* one object written, or one path of a webhook payload
Entry(sink, route, k, kind, idx, folder, path) ==
    [sink |-> sink, route |-> route.Name, msg |-> k, kind |-> kind, idx |-> idx,
     folder |-> folder, path |-> path, key |-> KeyOf(sink, path)]

\* the .eml and the attachments at folderPath, as sink writes or payload paths
EmlAndAttachments(sink, route, k, email, folder, folderPath) ==
    <<Entry(sink, route, k, "eml", 0, folder, PathOf(folderPath, GenerateFilename(email)))>>
    \o [i \in 1..Len(email.attachments) |->
          Entry(sink, route, k, "attachment", i, folder,
                PathOf(folderPath, email.attachments[i].filename))]

\* storeWebhookPayload: the JSON file goes to S3 when S3 is enabled, and to the local
\* directory when that is enabled; a failed S3 write ends it
StoreWebhookPayload(route, k, email, folder, folderPath, cfg, up) ==
    IF "s3" \in cfg.storage /\ "s3" \notin up THEN <<>>
    ELSE (IF "s3" \in cfg.storage
          THEN <<Entry("s3", route, k, "json", 0, folder,
                       PathOf(folderPath, BaseFilename(email) \o <<".", "j", "s", "o", "n">>))>>
          ELSE <<>>)
         \o (IF SinkWorks("local", cfg, up)
             THEN <<Entry("local", route, k, "json", 0, folder,
                          PathOf(folderPath, BaseFilename(email) \o <<".", "j", "s", "o", "n">>))>>
             ELSE <<>>)

\* executeLocalStorage (sink = "local") and executeS3Storage (sink = "s3")
ExecuteStorage(sink, route, k, email, folder, cfg, up) ==
    IF ~SinkWorks(sink, cfg, up) THEN [log |-> <<>>, err |-> TRUE]
    ELSE [log |-> EmlAndAttachments(sink, route, k, email, folder, FolderPath(folder, email))
                  \o StoreWebhookPayload(route, k, email, folder, FolderPath(folder, email),
                                         cfg, up),
          err |-> FALSE]

RECURSIVE FirstFolder(_, _, _)
\* the loops of getRouteFolder from action i of route j of the matched routes on
FirstFolder(matched, j, i) ==
    IF j > Len(matched) THEN DefaultFolder
    ELSE IF i > Len(matched[j].Actions) THEN FirstFolder(matched, j + 1, 1)
    ELSE IF matched[j].Actions[i].Enabled /\ ConfigFolder(matched[j].Actions[i]) # EmptyStr
         THEN ConfigFolder(matched[j].Actions[i])
    ELSE FirstFolder(matched, j, i + 1)

\* getRouteFolder
GetRouteFolder(email, cfg) ==
    FirstFolder(FindMatchingRoutes(email, GetEnabledRoutes(cfg.routes)), 1, 1)

\* executeWebhook: the payload's eml_path and s3_path values, and SendWebhook's result
ExecuteWebhook(route, k, email, action, cfg, up) ==
    IF action.url = EmptyStr THEN [log |-> <<>>, err |-> TRUE]
    ELSE [log |-> EmlAndAttachments("webhook", route, k, email, GetRouteFolder(email, cfg),
                                    FolderPath(GetRouteFolder(email, cfg), email)),
          err |-> "webhook" \notin up]

\* the switch of executeRoute on one enabled action
ExecuteAction(route, k, email, action, cfg, up) ==
    CASE action.Type = "store_local" ->
             ExecuteStorage("local", route, k, email, FolderOf(action), cfg, up)
      [] action.Type = "store_s3" ->
             ExecuteStorage("s3", route, k, email, FolderOf(action), cfg, up)
      [] action.Type = "webhook" -> ExecuteWebhook(route, k, email, action, cfg, up)
      [] OTHER -> [log |-> <<>>, err |-> FALSE]

RECURSIVE StoreFrom(_, _, _, _, _, _)

\* executeRoute after one action ran: its error ends the route
StoreNext(r, route, i, k, email, cfg, up) ==
    IF r.err THEN r.log ELSE r.log \o StoreFrom(route, i + 1, k, email, cfg, up)

\* executeRoute from action i on: what the sinks get
StoreFrom(route, i, k, email, cfg, up) ==
    IF i > Len(route.Actions) THEN <<>>
    ELSE IF ~route.Actions[i].Enabled THEN StoreFrom(route, i + 1, k, email, cfg, up)
    ELSE StoreNext(ExecuteAction(route, k, email, route.Actions[i], cfg, up),
                   route, i, k, email, cfg, up)

RECURSIVE StoreRoutes(_, _, _, _, _, _)
\* the loop of ProcessEmail over the matched routes from route j on: what the sinks get
StoreRoutes(matched, j, k, email, cfg, up) ==
    IF j > Len(matched) THEN <<>>
    ELSE StoreFrom(matched[j], 1, k, email, cfg, up)
         \o StoreRoutes(matched, j + 1, k, email, cfg, up)

\* ProcessEmail on the k-th message, already parsed
ProcessParsed(email, k, cfg, up) ==
    StoreRoutes(FindMatchingRoutes(email, GetEnabledRoutes(cfg.routes)), 1, k, email, cfg, up)

----------------------------------------------------------------------------
(* Messages handed to the processor one after the other *)

Date1 == [year |-> <<"2", "0", "2", "4">>, month |-> <<"0", "1">>, day |-> <<"0", "2">>,
          clock |-> <<"0", "3", "0", "4", "0", "5">>, micro |-> <<"0", "0", "0", "0", "0", "0">>]
Date2 == [Date1 EXCEPT !.clock = <<"0", "3", "0", "4", "0", "6">>]

IdAbc1 == <<"<", "a", "b", "c", "1", "@", "x", ">">>
IdAbc2 == <<"<", "a", "b", "c", "2", "@", "x", ">">>
IdXyz  == <<"<", "x", "y", "z", "@", "x", ">">>

NameUp == <<".", ".", "/", "x">>

\* a parsed Email with the given Date, Message-ID and attachment filenames
StoreEmail(date, id, names) ==
    [from |-> AddrS, to |-> <<AddrC>>, subject |-> SubjHi, date |-> date, messageID |-> id,
     body |-> BodyText, htmlBody |-> EmptyStr,
     attachments |-> [i \in 1..Len(names) |->
                         [filename |-> names[i], ctype |-> "text/plain", content |-> BodyText]]]

StoreEmails ==
    { StoreEmail(Date1, IdAbc1, <<NameTest>>),
      StoreEmail(Date1, IdAbc2, <<NameTest>>),
      StoreEmail(Date1, IdXyz, <<NameTest, NameTest>>),
      StoreEmail(Date2, IdAbc1, <<NameUp>>),
      StoreEmail(Date1, EmptyStr, <<>>) }

FolderA == <<"a">>
FolderB == <<"b">>

\* an enabled action with the given Config entries
ActIn(t, u, folder) == [Type |-> t, Enabled |-> TRUE, url |-> u, folder |-> folder]

RoutesOneFolder ==
    << Route("one", TRUE, Cond(PatAll, EmptyStr, EmptyStr),
             <<ActIn("store_local", EmptyStr, FolderA), ActIn("store_s3", EmptyStr, FolderA),
               ActIn("webhook", Url, EmptyStr)>>) >>

RoutesTwoFolders ==
    << Route("first", TRUE, Cond(PatAll, EmptyStr, EmptyStr),
             <<ActIn("store_local", EmptyStr, FolderA)>>),
       Route("second", TRUE, Cond(PatAll, EmptyStr, EmptyStr),
             <<ActIn("store_s3", EmptyStr, FolderB), ActIn("webhook", Url, EmptyStr)>>) >>

\* config.Storage: the sinks that are enabled
StoreConfigs ==
    [tls : {FALSE}, routes : {RoutesOneFolder, RoutesTwoFolders},
     storage : {{"local", "s3"}, {"local"}}]

\* the sinks that work while one message is handled
SinkStates == { {"local", "s3", "webhook"}, {"local", "webhook"}, {"s3", "webhook"},
                {"local", "s3"} }

InitStore ==
    /\ config \in StoreConfigs
    /\ open = FALSE
    /\ helo = EmptyStr
    /\ mailFrom = AddrS
    /\ rcptTo = <<AddrC>>
    /\ tlsEnabled = FALSE
    /\ conn = PlainConn
    /\ lastCmd = Cmd("CONNECT", EmptyStr, NoMsg, "ok")
    /\ replies = <<>>
    /\ parsed = NoEmail
    /\ fired = <<>>
    /\ attempted = <<>>
    /\ script = 0
    /\ transcript = <<>>
    /\ Alone

\* ProcessEmail on one more message, from the route matching on
ApplyStore ==
    /\ Len(stored.msgs) < MaxMessages
    /\ \E email \in StoreEmails, up \in SinkStates :
         stored' = [msgs |-> Append(stored.msgs, email),
                    log  |-> stored.log
                             \o ProcessParsed(email, Len(stored.msgs) + 1, config, up)]
    /\ UNCHANGED <<config, open, helo, mailFrom, rcptTo, tlsEnabled, conn, lastCmd, replies,
                   parsed, fired, attempted, script, transcript, submitted, wire, data,
                   dataPc, server, pc, conns, timer, hook, other>>

NextStore == ApplyStore

SpecStore == InitStore /\ [][NextStore]_vars

----------------------------------------------------------------------------
(* Properties of what the sinks hold *)

\* the positions of the log that are objects written to the local directory or the bucket
Objects == {i \in 1..Len(stored.log) : stored.log[i].sink \in {"local", "s3"}}

\* the folder path of the action that made entry e, in segments, from the sink's root
FolderKey(e) ==
    (IF e.sink = "local" THEN <<Directory>> ELSE <<>>)
    \o Split(FolderPath(e.folder, stored.msgs[e.msg]), <<>>)

\* C22: every accepted message that matches a rule with an enabled store action is
\* persisted as its own .eml object: k messages (also ones carrying the same Date header
\* but different Message-IDs) give k distinct .eml paths in distinct uniqueId folders, and
\* no stored message or attachment overwrites an object of another message.
C22_OwnObjectPerMessage ==
    \A i, j \in Objects :
        LET a == stored.log[i]
            b == stored.log[j]
        IN  (/\ a.msg # b.msg
             /\ a.sink = b.sink
             /\ stored.msgs[a.msg].messageID # stored.msgs[b.msg].messageID) =>
                /\ a.key # b.key
                /\ GenerateUniqueID(stored.msgs[a.msg]) # GenerateUniqueID(stored.msgs[b.msg])

\* C23: a message for a recipient matching a store_local rule with folder F results in
\* exactly one .eml file located directly inside <local directory>/F (found by the
\* pattern F/*.eml).
C23_EmlDirectlyInFolder ==
    \A i \in Objects :
        LET e == stored.log[i]
        IN  (e.sink = "local" /\ e.kind = "eml") =>
                /\ e.key = <<Directory>> \o Split(e.folder, <<>>)
                           \o <<GenerateFilename(stored.msgs[e.msg])>>
                /\ \A j \in Objects :
                       (/\ stored.log[j].sink = "local" /\ stored.log[j].kind = "eml"
                        /\ stored.log[j].msg = e.msg /\ stored.log[j].route = e.route) => j = i

\* C24: for every store action whose .eml write succeeds, a JSON sidecar is persisted to
\* the same sink as the .eml, under the same folder path, whatever the state or outcome of
\* the other storage sink.
C24_SidecarFollowsEml ==
    \A i \in Objects :
        LET e == stored.log[i]
        IN  e.kind = "eml" =>
                \E j \in Objects :
                    /\ stored.log[j].kind = "json"
                    /\ stored.log[j].sink = e.sink
                    /\ stored.log[j].msg = e.msg
                    /\ stored.log[j].route = e.route
                    /\ Len(stored.log[j].key) = Len(FolderKey(e)) + 1
                    /\ HasPrefix(stored.log[j].key, FolderKey(e))

\* C25: every object written by a store action (the .eml, each attachment, the sidecar)
\* lies under that action's folder path {folder}/{year}/{month}/{uniqueId}/, for every
\* attachment filename a message can carry, also with path separators or ".." segments.
C25_ObjectsUnderFolderPath ==
    \A i \in Objects :
        /\ Len(stored.log[i].key) > Len(FolderKey(stored.log[i]))
        /\ HasPrefix(stored.log[i].key, FolderKey(stored.log[i]))

\* C26: the object paths of the attachments of one message are pairwise distinct and
\* distinct from the paths of the .eml and of the JSON sidecar, so no attachment is
\* overwritten by another object of the same message (also when two attachments carry
\* the same filename).
C26_AttachmentsAddressable ==
    \A i, j \in Objects :
        LET a == stored.log[i]
            b == stored.log[j]
        IN  (/\ a.kind = "attachment"
             /\ a.msg = b.msg /\ a.sink = b.sink /\ a.route = b.route /\ a.folder = b.folder
             /\ <<a.kind, a.idx>> # <<b.kind, b.idx>>) => a.key # b.key

\* C30: the eml_path and every attachment path in the payload of a webhook action equal
\* the paths under which a store action of the same rule persists the .eml and the
\* attachments, also when the message matches several rules that use different folders.
C30_PayloadPathsAreStoragePaths ==
    \A i \in 1..Len(stored.log), j \in Objects :
        LET w == stored.log[i]
            e == stored.log[j]
        IN  (/\ w.sink = "webhook"
             /\ w.msg = e.msg /\ w.route = e.route /\ w.kind = e.kind /\ w.idx = e.idx) =>
                w.path = e.path


----------------------------------------------------------------------------
(* Client.SendWebhookWithRetry on its own: one call, its loop taken an        *)
(* attempt at a time, the endpoint's behaviour chosen for every attempt.      *)

MaxRetries == 2

\* the maxRetries argument: an int, which no caller in the repository constrains
RetryCounts == -1..MaxRetries

\* what one attempt meets: the request cannot be created, it cannot be sent, or a response
\* with a status arrives
Outcomes ==
    { [made |-> FALSE, sent |-> FALSE, status |-> 0],
      [made |-> TRUE, sent |-> FALSE, status |-> 0] }
    \cup [made : {TRUE}, sent : {TRUE}, status : {200, 399, 400, 503}]

\* the nil error
NilErr == [msg |-> "nil"]

\* SendWebhook: the error it returns
SendWebhook(o) ==
    IF ~o.made THEN [msg |-> "failed to create request", status |-> 0]
    ELSE IF ~o.sent THEN [msg |-> "failed to send webhook", status |-> 0]
    ELSE IF o.status >= 400 THEN [msg |-> "webhook returned error status", status |-> o.status]
    ELSE NilErr

InitRetry ==
    /\ config \in Configs
    /\ open = FALSE
    /\ helo = EmptyStr
    /\ mailFrom = EmptyStr
    /\ rcptTo = <<>>
    /\ tlsEnabled = FALSE
    /\ conn = PlainConn
    /\ lastCmd = Cmd("CONNECT", EmptyStr, NoMsg, "ok")
    /\ replies = <<>>
    /\ parsed = NoEmail
    /\ fired = <<>>
    /\ attempted = <<>>
    /\ script = 0
    /\ transcript = <<>>
    /\ Alone

RetryOnly ==
    UNCHANGED <<config, open, helo, mailFrom, rcptTo, tlsEnabled, conn, lastCmd, replies,
                parsed, fired, attempted, script, transcript, submitted, wire, data,
                dataPc, server, pc, conns, timer, stored, other>>

\* SendWebhookWithRetry is entered: var lastErr error; attempt := 0
CallSendWebhookWithRetry ==
    /\ hook.at = "idle"
    /\ \E n \in RetryCounts : hook' = [NoHook EXCEPT !.at = "loop", !.maxRetries = n]
    /\ RetryOnly

\* one pass of the loop body: the sleep of attempt*attempt seconds before every attempt but
\* the first, the SendWebhook call, return nil on success, lastErr = err otherwise
RetryAttempt ==
    /\ hook.at = "loop"
    /\ hook.attempt <= hook.maxRetries
    /\ \E o \in Outcomes :
         hook' = [hook EXCEPT
                    !.tries = Append(@, o),
                    !.slept = IF hook.attempt > 0 THEN Append(@, hook.attempt * hook.attempt)
                              ELSE @,
                    !.at = IF SendWebhook(o) = NilErr THEN "returned" ELSE "loop",
                    !.ret = IF SendWebhook(o) = NilErr THEN NilErr ELSE @,
                    !.lastErr = IF SendWebhook(o) = NilErr THEN @ ELSE SendWebhook(o),
                    !.attempt = IF SendWebhook(o) = NilErr THEN @ ELSE @ + 1]
    /\ RetryOnly

\* the loop condition fails: the error that wraps lastErr is returned
RetryGivesUp ==
    /\ hook.at = "loop"
    /\ hook.attempt > hook.maxRetries
    /\ hook' = [hook EXCEPT !.at = "returned",
                            !.ret = [msg |-> "webhook failed after attempts",
                                     attempts |-> hook.maxRetries + 1,
                                     wraps |-> hook.lastErr]]
    /\ RetryOnly

NextRetry ==
    \/ CallSendWebhookWithRetry
    \/ RetryAttempt
    \/ RetryGivesUp

SpecRetry == InitRetry /\ [][NextRetry]_vars

\* an attempt failed: the request could not be sent, or the status was 400 or higher
AttemptFailed(o) == ~o.made \/ ~o.sent \/ o.status >= 400

\* C36: SendWebhookWithRetry called with maxRetries = n makes at least one and at most n+1
\* delivery attempts, makes no further attempt after the first successful one, returns
\* success if and only if some attempt succeeded, and otherwise returns a failure carrying
\* the last attempt's error; an attempt counts as failed when the request cannot be sent or
\* the response status is 400 or higher.
C36_RetryAttempts ==
    /\ Len(hook.tries) <= hook.maxRetries + 1 \/ hook.at = "idle"
    /\ \A i \in 1..Len(hook.tries) - 1 : AttemptFailed(hook.tries[i])
    /\ hook.at = "returned" =>
          /\ Len(hook.tries) >= 1
          /\ hook.ret = NilErr <=> \E i \in 1..Len(hook.tries) : ~AttemptFailed(hook.tries[i])
          /\ hook.ret # NilErr => hook.ret.wraps = SendWebhook(hook.tries[Len(hook.tries)])

\* the same for calls with maxRetries of 0 or more
RetryAttemptsFromZero == hook.maxRetries >= 0 => C36_RetryAttempts

====
